---------------------------- MODULE Spec2Model ----------------------------
(***************************************************************************)
(* Model of the polling subsystem of the feedback-ingestion service:      *)
(* PollingService (scheduler), PollingStateService (state store, circuit  *)
(* breaker) and RateLimiter (sliding window).                             *)
(*                                                                         *)
(* Strings are sequences of one-character strings, so that string         *)
(* building (template literals, base64, slice, toString, parseInt) is     *)
(* computed the way the code computes it.                                 *)
(***************************************************************************)
EXTENDS Integers, Sequences, FiniteSets, Bags, TLC

VARIABLES
    \* ---- key derivation (SpecKeys) ----
    kcfgs,      \* a pair of JobConfig identities read from the config source
    kkeys,      \* the keys the code derives for the pair (NoKeys before)
    \* ---- state store, one key, sequential callers (SpecState) ----
    psEntry,    \* the Redis hash of the key and its TTL
    psCalls,    \* updateFailedPoll calls since the key was absent / last success
    psLast,     \* the last operation applied: "none", "fail", "success"
    psFaulty,   \* TRUE once a backend command of some call has failed
    psNow,      \* the wall clock (ms) of the state store's caller
    \* ---- rate limiter, one key, sequential callers (SpecRL) ----
    rlWin,      \* the Redis sorted set of the key and its TTL
    rlNow,      \* Date.now() of the caller (ms)
    rlLog,      \* the calls made so far: their time, what they returned and
                \* whether their catch block ran
    rlFaulty,   \* TRUE once a call has ended in its catch block
    \* ---- PollingService (Spec) ----
    isRunning,  \* PollingService.isRunning
    dbConfigs,  \* the PollingConfig documents of the database, by identity
    jobs,       \* PollingService.jobs: job key -> PollingJob, or NoJob
    leaked,     \* job key -> pending timers no PollingJob.timeoutId refers to
    execs,      \* the timer callbacks that are inside executePoll (a bag)
    store,      \* PollingStateService's Redis: state key -> hash and TTL
    published,  \* the job keys with a record on the Kafka topic
    breaker,    \* history: job key -> "closed", "open" (an updateFailedPoll of
                \* the job returned true) or "reset" (resetFailureCount since)
    lastCheck,  \* history: what the rate-limit stage resolved to, when the
                \* last step was one (NoCheck otherwise)
    lastLoad,   \* history: when the last step was a loadPollingConfigurations,
                \* whether it "loaded" or "failed" and the job keys whose
                \* handle it replaced (NoLoad otherwise)
    \* ---- one generic cycle: DefaultPollingBehavior.poll (SpecFetch) ----
    fConfig,    \* the configuration of the cycle
    fPc,        \* where pollWithBehavior stands: "state", "page", "publish",
                \* "done", "failed"
    pageCount,  \* poll's pageCount
    hasMorePages,     \* poll's hasMorePages
    allRecords,       \* poll's allRecords
    paginationParams, \* poll's paginationParams
    fRequests,  \* history: the parameters of the requests made so far
    fAnswers,   \* history: what the source answered to them
    fResult,    \* the PollingResult poll returned (NoResult before)
    fSent,      \* the records sent to the topic so far
    \* ---- one Discourse cycle: fetchPostsWithDetails (SpecDiscourse) ----
    dPc,        \* "idle", "poll", "search", "details", "return", "done", "failed"
    dPage,      \* the page of the search loop
    dTopics,    \* the topic groups of the page whose details are still to fetch
    allDetailedPosts, \* fetchPostsWithDetails' allDetailedPosts
    dAnswers,   \* history: what the source answered, request by request
    dResult,    \* the PollingResult poll returned (NoResult before)
    \* ---- PollingBehaviorRegistry (SpecRegistry) ----
    behaviors,  \* PollingBehaviorRegistry.behaviors
    lookup,     \* the last call of getBehavior and what it returned
    \* ---- DataExtractor.extractData (SpecExtract) ----
    exIn,       \* a response body and a response_path
    exOut,      \* what extractData returned for them (NoOutput before)
    \* ---- PollingService: start(), stop() and the loads in flight (SpecStop) ----
    lifecycle,  \* whether start() has set isRunning, whether stop() was
                \* called, and checkInterval: "none", "set", "cleared"
    loading,    \* the loadPollingConfigurations in flight (NoLoading if none)
    \* ---- one rate-limit key, concurrent callers (SpecLimiterShared) ----
    shWin,      \* the Redis sorted set of the key and its TTL
    shNow,      \* the wall clock (ms)
    shChecks,   \* caller -> where its isAllowed stands and the now it took
    shLog,      \* the calls that returned: their now and what they returned
    \* ---- one state key, concurrent callers (SpecStateShared) ----
    shEntry,    \* the Redis hash of the key and its TTL
    shUpdates,  \* caller -> where its updateFailedPoll stands and what it read
    shCompleted,\* the updateFailedPoll calls that have returned
    \* ---- the cycles of one job, await by await (SpecCycle) ----
    cyPc,       \* where executePoll stands: "none" outside a cycle, "minute",
                \* "hour", "attempt", "poll", "publish", "failure"
    cyCycles,   \* the cycles begun
    cyTrace,    \* history: the operations the cycle has called, in order
    cyRecords,  \* result.records of pollWithBehavior
    cySent,     \* the records of the cycle sent to the topic
    cyEntry,    \* the Redis hash of the job's state key and its TTL
    cyStopped,  \* stopPollingJob was called for the job
    \* ---- ApiClient.buildUrl (SpecBuild) ----
    buIn,       \* an endpoint, the configured and the additional parameters
    buOut,      \* the search parameters buildUrl gave the URL (NoUrl before)
    \* ---- incremental polling of one job (SpecIncremental) ----
    inEntry,    \* the Redis hash of the job's state key and its TTL
    inOpen,     \* which PollingStateService has a connected client: the
                \* scheduler's singleton, the generic behavior's own
    inPc,       \* "idle", "state", "page", "success", "failure"
    inCycles,   \* the cycles begun
    inParams,   \* poll's paginationParams
    inRequests, \* history: the parameters of the cycle's page requests
    inTimes,    \* history: the times the cycle's page requests were issued
    inSuccess,  \* history: the time of the last updateSuccessfulPoll call
                \* (NoSuccess before the first)
    inNow,      \* the wall clock (ms)
    \* ---- the registered DiscoursePollingBehavior, several jobs (SpecDiscourseShared) ----
    discourseClient, \* DiscoursePollingBehavior.discourseClient
    dcPolls,    \* job -> where its poll stands and the client it fetches with
    dcCycles,   \* the polls begun
    dcRequests, \* history: the requests sent, the job they were sent for
    dcPublished, \* history: the messages sent to the topic
    \* ---- the rate-limit checks of executePoll (SpecGate) ----
    gtPc,       \* "idle", "hour": the check the cycle awaits
    gtMinute,   \* the sorted set of the key ...:api_calls:minute and its TTL
    gtHour,     \* the sorted set of the key ...:api_calls:hour and its TTL
    gtNow,      \* the wall clock (ms)
    gtLast,     \* history: what the checks of the last cycle returned
    \* ---- the Discourse cycle inside executePoll (SpecDiscourseCycle) ----
    dxPc,       \* "idle", "poll", "failure", "recorded"
    dxEntry,    \* the Redis hash of the job's state key and its TTL
    dxPrior,    \* history: the state key before the cycle
    dxSent,     \* history: the records sent to the topic
    dxLast      \* history: the state store call that recorded the cycle

kvars == <<kcfgs, kkeys>>
psvars == <<psEntry, psCalls, psLast, psFaulty, psNow>>
rlvars == <<rlWin, rlNow, rlLog, rlFaulty>>
svars == <<isRunning, dbConfigs, jobs, leaked, execs, store, published, breaker,
           lastCheck, lastLoad>>
fvars == <<fConfig, fPc, pageCount, hasMorePages, allRecords, paginationParams,
           fRequests, fAnswers, fResult, fSent>>
dvars == <<dPc, dPage, dTopics, allDetailedPosts, dAnswers, dResult>>
gvars == <<behaviors, lookup>>
evars == <<exIn, exOut>>
\* the variables of the polling behaviors
bvars == <<fvars, dvars, gvars, evars>>
lvars == <<lifecycle, loading>>
shlvars == <<shWin, shNow, shChecks, shLog>>
shsvars == <<shEntry, shUpdates, shCompleted>>
\* the variables of the components that stand alone
cyvars == <<cyPc, cyCycles, cyTrace, cyRecords, cySent, cyEntry, cyStopped>>
buvars == <<buIn, buOut>>
invars == <<inEntry, inOpen, inPc, inCycles, inParams, inRequests, inTimes, inSuccess, inNow>>
dcvars == <<discourseClient, dcPolls, dcCycles, dcRequests, dcPublished>>
gtvars == <<gtPc, gtMinute, gtHour, gtNow, gtLast>>
dxvars == <<dxPc, dxEntry, dxPrior, dxSent, dxLast>>
xvars == <<shlvars, shsvars, cyvars, buvars, invars, dcvars, gtvars, dxvars>>
\* the variables of the remaining components
ovars == <<lvars, xvars>>
vars == <<kvars, psvars, rlvars, svars, bvars, ovars>>

-----------------------------------------------------------------------------
(* Strings *)

Min(a, b) == IF a <= b THEN a ELSE b

\* String.prototype.slice(0, n) on a string at least 0 long.
Slice0(s, n) == SubSeq(s, 1, Min(n, Len(s)))

\* a template literal `${a}:${b}`
Colon(a, b) == a \o <<":">> \o b

Digits == <<"0","1","2","3","4","5","6","7","8","9">>

\* Number.prototype.toString() of a non-negative integer.
RECURSIVE toString(_)
toString(n) ==
    IF n < 10 THEN <<Digits[n + 1]>>
    ELSE toString(n \div 10) \o <<Digits[(n % 10) + 1]>>

DigitValue(ch) == CHOOSE d \in 0..9 : Digits[d + 1] = ch

IsDigit(ch) == \E d \in 0..9 : Digits[d + 1] = ch

\* the leading run of decimal digits of s, as parseInt reads it
RECURSIVE LeadingDigits(_)
LeadingDigits(s) ==
    IF s = <<>> \/ ~IsDigit(Head(s)) THEN <<>>
    ELSE <<Head(s)>> \o LeadingDigits(Tail(s))

RECURSIVE DigitsValue(_, _)
DigitsValue(s, acc) ==
    IF s = <<>> THEN acc
    ELSE DigitsValue(Tail(s), acc * 10 + DigitValue(Head(s)))

NaN == 0 - 1

\* parseInt(s): the value of the leading digits, NaN when there are none.
\* (The strings the store holds carry no sign and no leading blanks.)
parseInt(s) ==
    IF LeadingDigits(s) = <<>> THEN NaN ELSE DigitsValue(LeadingDigits(s), 0)

-----------------------------------------------------------------------------
(* Buffer.from(s).toString('base64') *)

AsciiChars == <<".", "/", ":", "a", "b", "h", "i", "o", "p", "s", "t">>
AsciiCodes == <<46, 47, 58, 97, 98, 104, 105, 111, 112, 115, 116>>

\* Buffer.from(ch): the byte of an ASCII character
ByteOf(ch) == AsciiCodes[CHOOSE i \in 1..Len(AsciiChars) : AsciiChars[i] = ch]

B64Alphabet ==
    <<"A","B","C","D","E","F","G","H","I","J","K","L","M","N","O","P",
      "Q","R","S","T","U","V","W","X","Y","Z","a","b","c","d","e","f",
      "g","h","i","j","k","l","m","n","o","p","q","r","s","t","u","v",
      "w","x","y","z","0","1","2","3","4","5","6","7","8","9","+","/">>

B64(sextet) == B64Alphabet[sextet + 1]

RECURSIVE Base64(_)
Base64(s) ==
    IF s = <<>> THEN <<>>
    ELSE IF Len(s) = 1 THEN
        LET n == ByteOf(s[1]) * 16
        IN  <<B64(n \div 64), B64(n % 64), "=", "=">>
    ELSE IF Len(s) = 2 THEN
        LET n == (ByteOf(s[1]) * 256 + ByteOf(s[2])) * 4
        IN  <<B64(n \div 4096), B64((n \div 64) % 64), B64(n % 64), "=">>
    ELSE
        LET n == ByteOf(s[1]) * 65536 + ByteOf(s[2]) * 256 + ByteOf(s[3])
        IN  <<B64(n \div 262144), B64((n \div 4096) % 64),
              B64((n \div 64) % 64), B64(n % 64)>>
            \o Base64(SubSeq(s, 4, Len(s)))

-----------------------------------------------------------------------------
(* Job configurations and the keys derived from them *)

Tenants == { <<"t","1">>, <<"t","2">> }

SourceTypes ==
    { <<"D","I","S","C","O","U","R","S","E">>,
      <<"I","N","T","E","R","C","O","M">> }

InstanceUrls ==
    { <<"h","t","t","p","s",":","/","/","a",".","i","o">>,
      <<"h","t","t","p","s",":","/","/","b",".","i","o">>,
      <<"h","t","t","p",":","/","/","a",".","i","o">>,
      <<"a",".","i","o">>,
      <<"b",".","i","o">> }

\* the identity of a JobConfig: (tenant_id, source_type, instance_url)
ConfigIds ==
    [tenant_id : Tenants, source_type : SourceTypes, instance_url : InstanceUrls]

HashLen == 8

POLLING_STATE == <<"p","o","l","l","i","n","g","_","s","t","a","t","e">>

getStateKey(tenantId, sourceType, instanceUrl) ==
    LET instanceHash == Slice0(Base64(instanceUrl), HashLen)
    IN  Colon(Colon(Colon(POLLING_STATE, tenantId), sourceType), instanceHash)

getJobKey(config) ==
    Colon(Colon(config.tenant_id, config.source_type), config.instance_url)

API_CALLS == <<"a","p","i","_","c","a","l","l","s">>

\* executePoll: rateLimitKey, and the two keys handed to isAllowed
rateLimitKey(config) ==
    Colon(Colon(config.tenant_id, config.source_type), API_CALLS)

minuteKey(config) == Colon(rateLimitKey(config), <<"m","i","n","u","t","e">>)

hourKey(config) == Colon(rateLimitKey(config), <<"h","o","u","r">>)

StateKeyOf(config) ==
    getStateKey(config.tenant_id, config.source_type, config.instance_url)

NoKeys == <<>>

KeysInit ==
    /\ kcfgs \in ConfigIds \X ConfigIds
    /\ kkeys = NoKeys

\* The scheduler derives the job key, the state key and the rate-limit keys
\* of each of the two configurations.
DeriveKeys ==
    /\ kkeys = NoKeys
    /\ kkeys' = [i \in 1..2 |->
                   [job    |-> getJobKey(kcfgs[i]),
                    state  |-> StateKeyOf(kcfgs[i]),
                    minute |-> minuteKey(kcfgs[i]),
                    hour   |-> hourKey(kcfgs[i])]]
    /\ UNCHANGED kcfgs
    /\ UNCHANGED <<psvars, rlvars, svars, bvars, ovars>>

-----------------------------------------------------------------------------
(* PollingStateService: one Redis hash per state key, with a TTL *)

HashFields ==
    {"lastSuccessfulPoll", "lastPollAttempt", "consecutiveFailures",
     "lastError", "lastErrorTimestamp"}

EmptyHash == [f \in {} |-> <<>>]

NoTTL == 0 - 1

\* 30 * 24 * 60 * 60 seconds
STATE_TTL == 30 * 24 * 60 * 60

\* a key that does not exist
AbsentEntry == [h |-> EmptyHash, ttl |-> NoTTL]

\* redis HSET key field value [field value ...]
hSet(entry, fields) ==
    [h   |-> [f \in DOMAIN entry.h \cup DOMAIN fields |->
                 IF f \in DOMAIN fields THEN fields[f] ELSE entry.h[f]],
     ttl |-> entry.ttl]

\* redis HDEL key field [field ...]; a hash left empty is removed
hDel(entry, names) ==
    IF DOMAIN entry.h \subseteq names THEN AbsentEntry
    ELSE [h   |-> [f \in DOMAIN entry.h \ names |-> entry.h[f]],
          ttl |-> entry.ttl]

\* redis EXPIRE key seconds; no effect on a key that does not exist
expire(entry, seconds) ==
    IF DOMAIN entry.h = {} THEN entry ELSE [entry EXCEPT !.ttl = seconds]

\* data.field of the object hGetAll returns: the empty string stands for
\* undefined (both are falsy where the code reads them)
Field(data, f) == IF f \in DOMAIN data THEN data[f] ELSE <<>>

\* new Date(ms).toISOString(), and new Date(iso) back: a timestamp is
\* written as the decimal string of its epoch milliseconds
toISOString(ms) == toString(ms)

Undefined == <<>>

DefaultState == [consecutiveFailures |-> 0,
                 lastSuccessfulPoll  |-> Undefined,
                 lastPollAttempt     |-> Undefined,
                 lastError           |-> Undefined,
                 lastErrorTimestamp  |-> Undefined]

\* faults: the backend commands of this call that throw
getPollingState(entry, faults) ==
    IF "hGetAll" \in faults THEN DefaultState
    ELSE LET data == entry.h
         IN  IF DOMAIN data = {} THEN DefaultState
             ELSE [consecutiveFailures |->
                       parseInt(IF Field(data, "consecutiveFailures") # <<>>
                                THEN Field(data, "consecutiveFailures")
                                ELSE <<"0">>),
                   lastSuccessfulPoll  |-> Field(data, "lastSuccessfulPoll"),
                   lastPollAttempt     |-> Field(data, "lastPollAttempt"),
                   lastError           |-> Field(data, "lastError"),
                   lastErrorTimestamp  |-> Field(data, "lastErrorTimestamp")]

updateLastPollAttempt(entry, timestamp, faults) ==
    IF "hSet" \in faults THEN entry
    ELSE LET e1 == hSet(entry, [lastPollAttempt |-> timestamp])
         IN  IF "expire" \in faults THEN e1 ELSE expire(e1, STATE_TTL)

updateSuccessfulPoll(entry, timestamp, faults) ==
    IF "hSet" \in faults THEN entry
    ELSE LET e1 == hSet(entry, [lastSuccessfulPoll  |-> timestamp,
                                consecutiveFailures |-> <<"0">>])
         IN  IF "hDel" \in faults THEN e1
             ELSE LET e2 == hDel(e1, {"lastError", "lastErrorTimestamp"})
                  IN  IF "expire" \in faults THEN e2 ELSE expire(e2, STATE_TTL)

\* updateFailedPoll with consecutiveFailures written back unchanged
updateFailedPoll_NoIncrement(entry, error, maxFailures, timestamp, faults) ==
    LET currentState == getPollingState(entry, faults)
        newFailureCount == currentState.consecutiveFailures
        shouldDisable == newFailureCount >= maxFailures
    IN  IF "hSet" \in faults THEN [entry |-> entry, ret |-> FALSE]
        ELSE LET e1 == hSet(entry,
                            [consecutiveFailures |-> toString(newFailureCount),
                             lastError           |-> error,
                             lastErrorTimestamp  |-> timestamp])
             IN  IF "expire" \in faults THEN [entry |-> e1, ret |-> FALSE]
                 ELSE [entry |-> expire(e1, STATE_TTL), ret |-> shouldDisable]

\* returns the entry after the call and the value the call returns
updateFailedPoll(entry, error, maxFailures, timestamp, faults) ==
    LET currentState == getPollingState(entry, faults)
        newFailureCount == currentState.consecutiveFailures + 1
        shouldDisable == newFailureCount >= maxFailures
    IN  IF "hSet" \in faults THEN [entry |-> entry, ret |-> FALSE]
        ELSE LET e1 == hSet(entry,
                            [consecutiveFailures |-> toString(newFailureCount),
                             lastError           |-> error,
                             lastErrorTimestamp  |-> timestamp])
             IN  IF "expire" \in faults THEN [entry |-> e1, ret |-> FALSE]
                 ELSE [entry |-> expire(e1, STATE_TTL), ret |-> shouldDisable]

resetFailureCount(entry, faults) ==
    IF "hSet" \in faults THEN entry
    ELSE LET e1 == hSet(entry, [consecutiveFailures |-> <<"0">>])
         IN  IF "hDel" \in faults THEN e1
             ELSE LET e2 == hDel(e1, {"lastError", "lastErrorTimestamp"})
                  IN  IF "expire" \in faults THEN e2 ELSE expire(e2, STATE_TTL)

\* a shouldDisablePolling that answers true when its read fails
shouldDisablePolling_FailClosed(entry, maxFailures, faults) ==
    "hGetAll" \in faults
        \/ getPollingState(entry, faults).consecutiveFailures >= maxFailures

shouldDisablePolling(entry, maxFailures, faults) ==
    getPollingState(entry, faults).consecutiveFailures >= maxFailures

-----------------------------------------------------------------------------
(* SpecState: sequential calls of the state store on one key *)

\* the largest number of consecutive updateFailedPoll calls explored
MaxCalls == 11

\* the last clock value explored
MaxNow == 2

\* error messages a failed cycle may store
ErrorMessages == { <<"e","1">>, <<"e","2">> }

\* updateFailedPoll's default for maxFailures
DEFAULT_MAX_FAILURES == 5

\* the commands of one call that throw: a throwing command ends the call,
\* except hGetAll, whose error getPollingState catches
FailFaults == {{}, {"hGetAll"}, {"hSet"}, {"expire"}, {"hGetAll", "expire"}}

SuccessFaults == {{}, {"hSet"}, {"hDel"}, {"expire"}}

AttemptFaults == {{}, {"hSet"}, {"expire"}}

StateInit ==
    /\ psEntry = AbsentEntry
    /\ psCalls = 0
    /\ psLast = "none"
    /\ psFaulty = FALSE
    /\ psNow = 0

\* one call of updateFailedPoll (recordFailure)
PsFail ==
    /\ psLast # "success" => psCalls < MaxCalls
    /\ getPollingState(psEntry, {}).consecutiveFailures < MaxCalls
    /\ \E error \in ErrorMessages, faults \in FailFaults :
          /\ psEntry' = updateFailedPoll(psEntry, error, DEFAULT_MAX_FAILURES,
                                         toISOString(psNow), faults).entry
          /\ psFaulty' = (psFaulty \/ faults # {})
    /\ psCalls' = IF psLast = "success" THEN 1 ELSE psCalls + 1
    /\ psLast' = "fail"
    /\ UNCHANGED psNow
    /\ UNCHANGED <<kvars, rlvars, svars, bvars, ovars>>

\* one call of updateSuccessfulPoll (recordSuccess); psCalls keeps the number
\* of failures that preceded it
PsSuccess ==
    /\ psLast # "success"
    /\ \E faults \in SuccessFaults :
          /\ psEntry' = updateSuccessfulPoll(psEntry, toISOString(psNow), faults)
          /\ psFaulty' = (psFaulty \/ faults # {})
    /\ psLast' = "success"
    /\ UNCHANGED <<psCalls, psNow>>
    /\ UNCHANGED <<kvars, rlvars, svars, bvars, ovars>>

PsTick ==
    /\ psNow < MaxNow
    /\ psNow' = psNow + 1
    /\ UNCHANGED <<psEntry, psCalls, psLast, psFaulty>>
    /\ UNCHANGED <<kvars, rlvars, svars, bvars, ovars>>

StateNext == PsFail \/ PsSuccess \/ PsTick

-----------------------------------------------------------------------------
(* RateLimiter: a Redis sorted set of request timestamps per key *)

\* a key that does not exist
EmptyWindow == [z |-> {}, ttl |-> NoTTL]

\* ZREMRANGEBYSCORE that keeps the score equal to max
zRemRangeByScore_Exclusive(z, min, max) ==
    {e \in z : ~(min <= e.score /\ e.score < max)}

\* redis ZREMRANGEBYSCORE key min max (both ends inclusive)
zRemRangeByScore(z, min, max) ==
    {e \in z : ~(min <= e.score /\ e.score <= max)}

zCard(z) == Cardinality(z)

\* redis ZADD key score member: a member already in the set keeps one
\* entry, with the new score
zAdd(z, score, value) ==
    {e \in z : e.value # value} \cup {[score |-> score, value |-> value]}

\* isAllowed with a catch block that returns false
isAllowed_FailClosed(win, now, windowSizeSeconds, maxRequests, faults) ==
    LET windowStart == now - (windowSizeSeconds * 1000)
        pruned == zRemRangeByScore(win.z, 0, windowStart)
        currentCount == zCard(pruned)
        added == zAdd(pruned, now, toString(now))
    IN  IF "exec" \in faults
        THEN [allowed |-> FALSE, threw |-> TRUE, win |-> win]
        ELSE IF currentCount >= maxRequests
        THEN [allowed |-> FALSE, threw |-> FALSE, win |-> [win EXCEPT !.z = pruned]]
        ELSE IF "zAdd" \in faults
        THEN [allowed |-> FALSE, threw |-> TRUE, win |-> [win EXCEPT !.z = pruned]]
        ELSE IF "expire" \in faults
        THEN [allowed |-> FALSE, threw |-> TRUE, win |-> [win EXCEPT !.z = added]]
        ELSE [allowed |-> TRUE, threw |-> FALSE,
              win |-> [z |-> added, ttl |-> windowSizeSeconds * 2]]

\* faults: the backend commands of this call that throw when issued;
\* returns what the call returns (allowed), whether its catch block ran
\* (threw) and the key after the call (win)
isAllowed(win, now, windowSizeSeconds, maxRequests, faults) ==
    LET windowStart == now - (windowSizeSeconds * 1000)
        pruned == zRemRangeByScore(win.z, 0, windowStart)
        currentCount == zCard(pruned)
        added == zAdd(pruned, now, toString(now))
    IN  IF "exec" \in faults
        THEN [allowed |-> TRUE, threw |-> TRUE, win |-> win]
        ELSE IF currentCount >= maxRequests
        THEN [allowed |-> FALSE, threw |-> FALSE, win |-> [win EXCEPT !.z = pruned]]
        ELSE IF "zAdd" \in faults
        THEN [allowed |-> TRUE, threw |-> TRUE, win |-> [win EXCEPT !.z = pruned]]
        ELSE IF "expire" \in faults
        THEN [allowed |-> TRUE, threw |-> TRUE, win |-> [win EXCEPT !.z = added]]
        ELSE [allowed |-> TRUE, threw |-> FALSE,
              win |-> [z |-> added, ttl |-> windowSizeSeconds * 2]]

-----------------------------------------------------------------------------
(* SpecRL: sequential calls of isAllowed on one key *)

\* the window (seconds) and the limit the calls of SpecRL pass
RlWindowSeconds == 1

RlMaxRequests == 2

\* the number of calls explored
MaxRlCalls == 4

\* the clock advances by half a window at a time, so that calls fall at the
\* same millisecond, inside the window, and exactly one window apart
RlStep == (RlWindowSeconds * 1000) \div 2

RlStart == RlWindowSeconds * 1000

RlEnd == RlStart + 4 * RlStep

RlFaults == {{}, {"exec"}, {"zAdd"}, {"expire"}}

RLInit ==
    /\ rlWin = EmptyWindow
    /\ rlNow = RlStart
    /\ rlLog = <<>>
    /\ rlFaulty = FALSE

\* one call isAllowed(key, RlWindowSeconds, RlMaxRequests) at time rlNow
RlCall ==
    /\ Len(rlLog) < MaxRlCalls
    /\ \E faults \in RlFaults :
          LET r == isAllowed(rlWin, rlNow, RlWindowSeconds, RlMaxRequests, faults)
          IN  /\ rlWin' = r.win
              /\ rlLog' = Append(rlLog, [t |-> rlNow, allowed |-> r.allowed,
                                        threw |-> r.threw])
              /\ rlFaulty' = (rlFaulty \/ r.threw)
    /\ UNCHANGED rlNow
    /\ UNCHANGED <<kvars, psvars, svars, bvars, ovars>>

\* time passes
RlAdvance ==
    /\ rlNow < RlEnd
    /\ rlNow' = rlNow + RlStep
    /\ UNCHANGED <<rlWin, rlLog, rlFaulty>>
    /\ UNCHANGED <<kvars, psvars, svars, bvars, ovars>>

RLNext == RlCall \/ RlAdvance

-----------------------------------------------------------------------------
(* PollingService: the scheduler *)

\* the configurations of the database: two instances of one tenant and
\* source type
JobA == [tenant_id     |-> <<"t","1">>,
         source_type   |-> <<"D","I","S","C","O","U","R","S","E">>,
         instance_url  |-> <<"h","t","t","p","s",":","/","/","a",".","i","o">>]

JobB == [tenant_id     |-> <<"t","1">>,
         source_type   |-> <<"D","I","S","C","O","U","R","S","E">>,
         instance_url  |-> <<"h","t","t","p","s",":","/","/","b",".","i","o">>]

\* the identities of the documents of the database
SchedConfigs == DOMAIN dbConfigs

\* the keys of the configurations, derived once
JobKeyOf == [c \in {JobA, JobB} |-> getJobKey(c)]

StateKeyTable == [c \in {JobA, JobB} |-> StateKeyOf(c)]

JobKeys == DOMAIN jobs

StateKeys == DOMAIN store

ConfigOfKey(k) == CHOOSE c \in SchedConfigs : JobKeyOf[c] = k

\* the fault sets a step may draw: none but the empty one when the backends
\* of the specification never fail
Drawn(faulty, faultSets) == IF faulty THEN faultSets ELSE {{}}

\* polling_config.interval_seconds: the schema's minimum and one more value
MIN_INTERVAL == 60

Intervals == {MIN_INTERVAL, 2 * MIN_INTERVAL}

\* polling_config.max_failures_before_disable of the configurations
MaxFailuresBeforeDisable == 1

\* rate_limiting.requests_per_minute and requests_per_hour of the
\* configurations
RequestsPerMinute == 1

RequestsPerHour == 1

\* the pending timers and running callbacks explored per job key
MaxChains == 2

\* the largest stored consecutiveFailures explored
MaxCount == 2

\* Date.now() in the scheduler, which is modelled without a clock
SchedNow == 60 * 1000

NoJob == [none |-> TRUE]

\* lastCheck when the last step was not a rate-limit stage
NoCheck == [none |-> TRUE]

\* lastLoad when the last step was not a loadPollingConfigurations
NoLoad == [kind |-> "none", restarted |-> {}]

\* the scheduler's mutable state as one value: isRunning, the jobs map, the
\* pending timers and the callbacks in flight
Sched == [running |-> isRunning, jobs |-> jobs, leaked |-> leaked, execs |-> execs]

\* the number of callbacks of job key k inside executePoll
ExecCount(S, k) ==
    LET es == {e \in BagToSet(S.execs) : e.jobKey = k}
        RECURSIVE Sum(_)
        Sum(set) == IF set = {} THEN 0
                    ELSE LET e == CHOOSE x \in set : TRUE
                         IN  CopiesIn(e, S.execs) + Sum(set \ {e})
    IN  Sum(es)

TimerPending(S, k) == S.jobs[k] # NoJob /\ S.jobs[k].timeoutId = "armed"

\* the pending timers of job key k
ArmedTimers(S, k) == (IF TimerPending(S, k) THEN 1 ELSE 0) + S.leaked[k]

Chains(S, k) == ArmedTimers(S, k) + ExecCount(S, k)

\* job.timeoutId = setTimeout(..., intervalMs): a timer still pending under
\* the old timeoutId stays pending, with nothing referring to it. intervalMs
\* is kept with the handle as the delay of the timer of timeoutId.
scheduleNextPoll(S, jobKey) ==
    IF S.jobs[jobKey] = NoJob \/ ~S.running THEN S
    ELSE LET intervalMs == S.jobs[jobKey].config.interval_seconds * 1000
         IN  [S EXCEPT !.leaked[jobKey] =
                           IF S.jobs[jobKey].timeoutId = "armed" THEN @ + 1 ELSE @,
                       !.jobs[jobKey].timeoutId = "armed",
                       !.jobs[jobKey].intervalMs = intervalMs]

startPollingJob(S, config) ==
    LET jobKey == JobKeyOf[config.id]
        job == [config |-> config, isRunning |-> FALSE, timeoutId |-> "none",
                intervalMs |-> 0]
    IN  scheduleNextPoll([S EXCEPT !.jobs[jobKey] = job], jobKey)

\* the callbacks of jobKey no longer hold the PollingJob of the map
Detached(bag, jobKey) ==
    LET Orphan(e) == IF e.jobKey = jobKey THEN [e EXCEPT !.own = FALSE] ELSE e
        RECURSIVE Move(_)
        Move(set) == IF set = {} THEN EmptyBag
                     ELSE LET e == CHOOSE x \in set : TRUE
                          IN  Move(set \ {e})
                              (+) [x \in {Orphan(e)} |-> CopiesIn(e, bag)]
    IN  Move(BagToSet(bag))

\* a stopPollingJob that also ends the executions of the job
stopPollingJob_Aborts(S, jobKey) ==
    IF S.jobs[jobKey] = NoJob THEN S
    ELSE [S EXCEPT !.jobs[jobKey] = NoJob,
                   !.execs = [e \in {x \in BagToSet(@) : x.jobKey # jobKey} |->
                                 CopiesIn(e, S.execs)]]

\* clearTimeout(job.timeoutId); this.jobs.delete(jobKey). A callback inside
\* executePoll keeps the PollingJob object it captured, which is no longer
\* the one of the map (own = FALSE).
stopPollingJob(S, jobKey) ==
    IF S.jobs[jobKey] = NoJob THEN S
    ELSE [S EXCEPT !.jobs[jobKey] = NoJob, !.execs = Detached(@, jobKey)]

\* an object-valued field of a document: undefined, or its members in the
\* order the document stores them, each a name and a string value
NoObject == [defined |-> FALSE, members |-> <<>>]

Object(members) == [defined |-> TRUE, members |-> members]

Quoted(str) == <<"\"">> \o str \o <<"\"">>

\* the members of an object as JSON.stringify writes them
RECURSIVE JSONMembers(_)
JSONMembers(members) ==
    IF members = <<>> THEN <<>>
    ELSE LET m == Head(members)
             first == Quoted(m[1]) \o <<":">> \o Quoted(m[2])
         IN  IF Tail(members) = <<>> THEN first
             ELSE first \o <<",">> \o JSONMembers(Tail(members))

\* JSON.stringify(value) of an object of string members (the names and
\* values used here need no escaping); undefined for undefined
JSONstringify(value) ==
    IF ~value.defined THEN <<"undefined">>
    ELSE <<"{">> \o JSONMembers(value.members) \o <<"}">>

\* api_config.endpoint
Endpoints == {<<"/","p">>, <<"/","q">>}

\* api_config.method
Methods == {"GET", "POST"}

\* api_config.query_params
QueryParams ==
    { NoObject,
      Object(<< <<<<"q">>, <<"1">>>> >>),
      Object(<< <<<<"q">>, <<"1">>>>, <<<<"p">>, <<"1">>>> >>),
      Object(<< <<<<"p">>, <<"1">>>>, <<<<"q">>, <<"1">>>> >>) }

response_path == <<"r","e","s","p","o","n","s","e","_","p","a","t","h">>

\* data_extraction
DataExtractions ==
    { Object(<< <<response_path, <<"$",".","a">>>> >>),
      Object(<< <<response_path, <<"$",".","b">>>> >>) }

\* a comparison that looks at the interval only
hasConfigChanged_IntervalOnly(oldConfig, newConfig) ==
    oldConfig.interval_seconds # newConfig.interval_seconds

hasConfigChanged(oldConfig, newConfig) ==
    \/ oldConfig.interval_seconds # newConfig.interval_seconds
    \/ oldConfig.endpoint # newConfig.endpoint
    \/ JSONstringify(oldConfig.query_params) # JSONstringify(newConfig.query_params)
    \/ JSONstringify(oldConfig.data_extraction) # JSONstringify(newConfig.data_extraction)

\* one iteration of the first loop of loadPollingConfigurations;
\* readFails: the state read of shouldDisablePolling throws
reconcileConfig(S, config, readFails) ==
    LET jobKey == JobKeyOf[config.id]
        existingJob == S.jobs[jobKey]
        shouldDisable ==
            shouldDisablePolling(store[StateKeyTable[config.id]],
                                 config.max_failures_before_disable,
                                 IF readFails THEN {"hGetAll"} ELSE {})
    IN  IF shouldDisable
        THEN (IF existingJob # NoJob THEN stopPollingJob(S, jobKey) ELSE S)
        ELSE LET S1 == IF existingJob # NoJob
                          /\ hasConfigChanged(existingJob.config, config)
                       THEN stopPollingJob(S, jobKey) ELSE S
             IN  IF S1.jobs[jobKey] = NoJob THEN startPollingJob(S1, config)
                 ELSE S1

\* the first loop over the configurations found
RECURSIVE reconcileConfigs(_, _, _)
reconcileConfigs(S, configs, faulty) ==
    IF configs = {} THEN S
    ELSE LET config == CHOOSE c \in configs : TRUE
         IN  reconcileConfigs(reconcileConfig(S, config, config.id \in faulty),
                              configs \ {config}, faulty)

\* a second loop that stops nothing
stopDisabled_None(S, keys, configs) == S

\* the second loop: stop the jobs whose configuration is not among those found
RECURSIVE stopDisabled(_, _, _)
stopDisabled(S, keys, configs) ==
    IF keys = {} THEN S
    ELSE LET jobKey == CHOOSE k \in keys : TRUE
             isStillEnabled ==
                 \E config \in configs :
                     JobKeyOf[config.id] = jobKey /\ config.enabled
         IN  stopDisabled(IF ~isStillEnabled THEN stopPollingJob(S, jobKey) ELSE S,
                          keys \ {jobKey}, configs)

\* PollingConfig.find({ 'polling_config.enabled': true })
findEnabled == {dbConfigs[c] : c \in {d \in DOMAIN dbConfigs : dbConfigs[d].enabled}}

loadPollingConfigurations(S, faulty) ==
    LET configs == findEnabled
        S1 == reconcileConfigs(S, configs, faulty)
    IN  stopDisabled(S1, {k \in JobKeys : S1.jobs[k] # NoJob}, configs)

Apply(S) ==
    /\ jobs' = S.jobs
    /\ leaked' = S.leaked
    /\ execs' = S.execs
    /\ isRunning' = S.running

\* the timer callback up to the first await of executePoll; of the config
\* the execution captured, maxFailures is max_failures_before_disable
timerCallback(S, jobKey) ==
    IF ~S.running THEN S
    ELSE LET job == S.jobs[jobKey]
         IN  IF job = NoJob \/ job.isRunning THEN scheduleNextPoll(S, jobKey)
             ELSE [S EXCEPT !.jobs[jobKey].isRunning = TRUE,
                            !.execs = @ (+) SetToBag({[jobKey |-> jobKey,
                                                       own |-> TRUE,
                                                       pc |-> "rate",
                                                       maxFailures |->
                                                           job.config.max_failures_before_disable]})]

\* executePoll's finally with the error leaving executePoll: the callback's
\* scheduleNextPoll is not reached
finishPoll_Escapes(S, e) ==
    LET S1 == [S EXCEPT !.execs = @ (-) SetToBag({e})]
    IN  IF e.own THEN [S1 EXCEPT !.jobs[e.jobKey].isRunning = FALSE] ELSE S1

\* executePoll's finally, and the callback's scheduleNextPoll after it
finishPoll(S, e) ==
    LET S1 == [S EXCEPT !.execs = @ (-) SetToBag({e})]
        S2 == IF e.own THEN [S1 EXCEPT !.jobs[e.jobKey].isRunning = FALSE] ELSE S1
    IN  scheduleNextPoll(S2, e.jobKey)

\* the contents of a rate-limit key that a check with limit maxRequests
\* may meet: no request in the window, or maxRequests of them
EnvWindows(maxRequests) ==
    { [z   |-> {[score |-> SchedNow - i, value |-> toString(SchedNow - i)] : i \in 1..n},
       ttl |-> IF n = 0 THEN NoTTL ELSE 60 * 2] : n \in {0, maxRequests} }

\* what rateLimiter.isAllowed(key, windowSizeSeconds, maxRequests) can return
\* to executePoll. The key is shared with every job and process of the
\* tenant and source type, whose calls decide what the check meets.
\* limited: the key may be found full
Checks(windowSizeSeconds, maxRequests, faultSets, limited) ==
    { [allowed |-> r.allowed, threw |-> r.threw] :
        r \in { isAllowed(win, SchedNow, windowSizeSeconds, maxRequests, faults) :
                   win \in EnvWindows(IF limited THEN maxRequests ELSE 0),
                   faults \in faultSets } }

\* the message of the error a failed cycle stores
SchedErrors == { <<"e","1">> }

SetExec(e, new) == (execs (-) SetToBag({e})) (+) SetToBag({new})

StateKeyOfJob(jobKey) == StateKeyTable[ConfigOfKey(jobKey)]

\* the state after construction, the database holding the documents ids,
\* whose max_failures_before_disable is maxFailures
SchedInitOf(ids, maxFailures) ==
    /\ isRunning = FALSE
    /\ dbConfigs = [c \in ids |->
                      [id |-> c, enabled |-> TRUE, interval_seconds |-> MIN_INTERVAL,
                       max_failures_before_disable |-> maxFailures,
                       endpoint |-> <<"/","p">>, method |-> "GET",
                       query_params |-> NoObject,
                       data_extraction |->
                           Object(<< <<response_path, <<"$",".","a">>>> >>)]]
    /\ jobs = [k \in {JobKeyOf[c] : c \in ids} |-> NoJob]
    /\ leaked = [k \in {JobKeyOf[c] : c \in ids} |-> 0]
    /\ execs = EmptyBag
    /\ store = [sk \in {StateKeyTable[c] : c \in ids} |-> AbsentEntry]
    /\ published = {}
    /\ breaker = [k \in {JobKeyOf[c] : c \in ids} |-> "closed"]
    /\ lastCheck = NoCheck
    /\ lastLoad = NoLoad

SchedInitWith(ids) == SchedInitOf(ids, MaxFailuresBeforeDisable)

SchedInit == SchedInitWith({JobA})

SchedInitTwo == SchedInitWith({JobA, JobB})

\* one configuration whose max_failures_before_disable is any value from 0,
\* which the schema admits, up to MaxFailuresBeforeDisable
SchedInitAnyThreshold ==
    \E maxFailures \in 0..MaxFailuresBeforeDisable : SchedInitOf({JobA}, maxFailures)

\* max_failures_before_disable of a job that survives a failed cycle
LiveMaxFailures == 2

SchedInitLive == SchedInitOf({JobA}, LiveMaxFailures)

\* start(): the collaborators are connected and isRunning is set; the first
\* loadPollingConfigurations and the periodic ones are Reconcile steps
Start ==
    /\ ~isRunning
    /\ isRunning' = TRUE
    /\ UNCHANGED <<dbConfigs, jobs, leaked, execs, store, published, breaker>>
    /\ lastCheck' = NoCheck
    /\ lastLoad' = NoLoad
    /\ UNCHANGED <<kvars, psvars, rlvars, bvars, ovars>>

\* an operator edits one field of a document of the database
EditDocument ==
    /\ \E c \in SchedConfigs :
          \/ \E v \in BOOLEAN \ {dbConfigs[c].enabled} :
                dbConfigs' = [dbConfigs EXCEPT ![c].enabled = v]
          \/ \E v \in Intervals \ {dbConfigs[c].interval_seconds} :
                dbConfigs' = [dbConfigs EXCEPT ![c].interval_seconds = v]
          \/ \E v \in Endpoints \ {dbConfigs[c].endpoint} :
                dbConfigs' = [dbConfigs EXCEPT ![c].endpoint = v]
          \/ \E v \in Methods \ {dbConfigs[c].method} :
                dbConfigs' = [dbConfigs EXCEPT ![c].method = v]
          \/ \E v \in QueryParams \ {dbConfigs[c].query_params} :
                dbConfigs' = [dbConfigs EXCEPT ![c].query_params = v]
          \/ \E v \in DataExtractions \ {dbConfigs[c].data_extraction} :
                dbConfigs' = [dbConfigs EXCEPT ![c].data_extraction = v]
    /\ UNCHANGED <<isRunning, jobs, leaked, execs, store, published, breaker>>
    /\ lastCheck' = NoCheck
    /\ lastLoad' = NoLoad
    /\ UNCHANGED <<kvars, psvars, rlvars, bvars, ovars>>

\* an operator edits enabled and interval_seconds of a document
EditConfig ==
    /\ \E c \in SchedConfigs, en \in BOOLEAN, iv \in Intervals :
          /\ <<en, iv>> # <<dbConfigs[c].enabled, dbConfigs[c].interval_seconds>>
          /\ dbConfigs' = [dbConfigs EXCEPT ![c].enabled = en,
                                            ![c].interval_seconds = iv]
    /\ UNCHANGED <<isRunning, jobs, leaked, execs, store, published, breaker>>
    /\ lastCheck' = NoCheck
    /\ lastLoad' = NoLoad
    /\ UNCHANGED <<kvars, psvars, rlvars, bvars, ovars>>

\* loadPollingConfigurations, the database read succeeding; the two loops
\* are taken as one step
Reconcile(faulty) ==
    /\ isRunning
    /\ \E readFails \in (IF faulty THEN SUBSET SchedConfigs ELSE {{}}) :
          LET S == loadPollingConfigurations(Sched, readFails)
          IN  /\ \A k \in JobKeys : Chains(S, k) <= MaxChains
              /\ Apply(S)
              /\ lastLoad' = [kind      |-> "loaded",
                              restarted |-> {k \in JobKeys :
                                               /\ jobs[k] # NoJob
                                               /\ S.jobs[k] # NoJob
                                               /\ S.jobs[k].config # jobs[k].config}]
    /\ breaker' = [k \in JobKeys |->
                     IF breaker[k] = "reset" THEN "closed" ELSE breaker[k]]
    /\ UNCHANGED <<dbConfigs, store, published>>
    /\ lastCheck' = NoCheck
    /\ UNCHANGED <<kvars, psvars, rlvars, bvars, ovars>>

\* a loadPollingConfigurations that takes the failed read for an empty result
ReconcileFails_StopsJobs ==
    /\ isRunning
    /\ Apply(stopDisabled(Sched, {k \in JobKeys : jobs[k] # NoJob}, {}))
    /\ UNCHANGED <<dbConfigs, store, published, breaker>>
    /\ lastCheck' = NoCheck
    /\ lastLoad' = [kind |-> "failed", restarted |-> {}]
    /\ UNCHANGED <<kvars, psvars, rlvars, bvars, ovars>>

\* loadPollingConfigurations, PollingConfig.find throwing: logged, no effect
ReconcileFails ==
    /\ isRunning
    /\ UNCHANGED <<isRunning, dbConfigs, jobs, leaked, execs, store, published, breaker>>
    /\ lastCheck' = NoCheck
    /\ lastLoad' = [kind |-> "failed", restarted |-> {}]
    /\ UNCHANGED <<kvars, psvars, rlvars, bvars, ovars>>

\* a pending timer of job key k fires: the callback runs up to its first await
TimerFire ==
    /\ \E k \in JobKeys :
          \/ /\ TimerPending(Sched, k)
             /\ Apply(timerCallback([Sched EXCEPT !.jobs[k].timeoutId = "fired"], k))
          \/ /\ leaked[k] > 0
             /\ Apply(timerCallback([Sched EXCEPT !.leaked[k] = @ - 1], k))
    /\ UNCHANGED <<dbConfigs, store, published, breaker>>
    /\ lastCheck' = NoCheck
    /\ lastLoad' = NoLoad
    /\ UNCHANGED <<kvars, psvars, rlvars, bvars, ovars>>

\* ExecRate with a denial handled as a thrown error
ExecRate_DenialFails(e, minute, hour) ==
    /\ e.pc = "rate"
    /\ LET minuteAllowed == minute.allowed
           hourAllowed == hour.allowed
       IN  /\ IF ~minuteAllowed \/ ~hourAllowed
              THEN /\ execs' = SetExec(e, [e EXCEPT !.pc = "failure"])
                   /\ UNCHANGED <<isRunning, jobs, leaked>>
              ELSE /\ execs' = SetExec(e, [e EXCEPT !.pc = "attempt"])
                   /\ UNCHANGED <<isRunning, jobs, leaked>>
           /\ lastCheck' = [exec          |-> e,
                            minuteAllowed |-> minuteAllowed,
                            hourAllowed   |-> hourAllowed,
                            minuteThrew   |-> minute.threw,
                            hourThrew     |-> hour.threw]
           /\ lastLoad' = NoLoad
    /\ UNCHANGED <<dbConfigs, store, published, breaker>>
    /\ UNCHANGED <<kvars, psvars, rlvars, bvars, ovars>>

\* ExecRate whose denial leaves the job without its next timer
ExecRate_SkipStops(e, minute, hour) ==
    /\ e.pc = "rate"
    /\ LET minuteAllowed == minute.allowed
           hourAllowed == hour.allowed
       IN  /\ IF ~minuteAllowed \/ ~hourAllowed
              THEN Apply(finishPoll_Escapes(Sched, e))
              ELSE /\ execs' = SetExec(e, [e EXCEPT !.pc = "attempt"])
                   /\ UNCHANGED <<isRunning, jobs, leaked>>
           /\ lastCheck' = [exec          |-> e,
                            minuteAllowed |-> minuteAllowed,
                            hourAllowed   |-> hourAllowed,
                            minuteThrew   |-> minute.threw,
                            hourThrew     |-> hour.threw]
           /\ lastLoad' = NoLoad
    /\ UNCHANGED <<dbConfigs, store, published, breaker>>
    /\ UNCHANGED <<kvars, psvars, rlvars, bvars, ovars>>

\* executePoll: the per-minute and the per-hour check resolve; a denial
\* returns through finally. minute, hour: what the two calls of isAllowed
\* returned (see Checks)
ExecRate(e, minute, hour) ==
    /\ e.pc = "rate"
    /\ LET minuteAllowed == minute.allowed
           hourAllowed == hour.allowed
       IN  /\ IF ~minuteAllowed \/ ~hourAllowed
              THEN Apply(finishPoll(Sched, e))
              ELSE /\ execs' = SetExec(e, [e EXCEPT !.pc = "attempt"])
                   /\ UNCHANGED <<isRunning, jobs, leaked>>
           /\ lastCheck' = [exec          |-> e,
                            minuteAllowed |-> minuteAllowed,
                            hourAllowed   |-> hourAllowed,
                            minuteThrew   |-> minute.threw,
                            hourThrew     |-> hour.threw]
           /\ lastLoad' = NoLoad
    /\ UNCHANGED <<dbConfigs, store, published, breaker>>
    /\ UNCHANGED <<kvars, psvars, rlvars, bvars, ovars>>

\* executePoll: updateLastPollAttempt resolves
ExecAttempt(e, faults) ==
    /\ e.pc = "attempt"
    /\ store' = [store EXCEPT ![StateKeyOfJob(e.jobKey)] =
                    updateLastPollAttempt(@, toISOString(SchedNow), faults)]
    /\ execs' = SetExec(e, [e EXCEPT !.pc = "poll"])
    /\ UNCHANGED <<isRunning, dbConfigs, jobs, leaked, published, breaker>>
    /\ lastCheck' = NoCheck
    /\ lastLoad' = NoLoad
    /\ UNCHANGED <<kvars, psvars, rlvars, bvars, ovars>>

\* executePoll: pollWithBehavior resolves or throws; sent: a record reached
\* the topic (before a throw: an earlier record of the same cycle)
ExecPoll(e, ok, sent) ==
    /\ e.pc = "poll"
    /\ published' = IF sent THEN published \cup {e.jobKey} ELSE published
    /\ execs' = SetExec(e, [e EXCEPT !.pc = IF ok THEN "success" ELSE "failure"])
    /\ UNCHANGED <<isRunning, dbConfigs, jobs, leaked, store, breaker>>
    /\ lastCheck' = NoCheck
    /\ lastLoad' = NoLoad
    /\ UNCHANGED <<kvars, psvars, rlvars, bvars, ovars>>

\* executePoll: updateSuccessfulPoll resolves, then finally
ExecSuccess(e, faults) ==
    /\ e.pc = "success"
    /\ store' = [store EXCEPT ![StateKeyOfJob(e.jobKey)] =
                    updateSuccessfulPoll(@, toISOString(SchedNow), faults)]
    /\ Apply(finishPoll(Sched, e))
    /\ UNCHANGED <<dbConfigs, published, breaker>>
    /\ lastCheck' = NoCheck
    /\ lastLoad' = NoLoad
    /\ UNCHANGED <<kvars, psvars, rlvars, bvars, ovars>>

\* executePoll's catch without the call of updateFailedPoll
ExecFailure_NotRecorded(e, error, faults) ==
    /\ e.pc = "failure"
    /\ Apply(finishPoll(Sched, e))
    /\ UNCHANGED <<dbConfigs, store, published, breaker>>
    /\ lastCheck' = NoCheck
    /\ lastLoad' = NoLoad
    /\ UNCHANGED <<kvars, psvars, rlvars, bvars, ovars>>

\* executePoll's catch: updateFailedPoll resolves, stopPollingJob when it
\* returned true, then finally
ExecFailure(e, error, faults) ==
    /\ e.pc = "failure"
    /\ LET sk == StateKeyOfJob(e.jobKey)
           r == updateFailedPoll(store[sk], error, e.maxFailures,
                                 toISOString(SchedNow), faults)
           shouldDisable == r.ret
           S1 == IF shouldDisable THEN stopPollingJob(Sched, e.jobKey) ELSE Sched
           \* this callback's own record after a stop of its job
           e1 == IF shouldDisable /\ jobs[e.jobKey] # NoJob
                 THEN [e EXCEPT !.own = FALSE] ELSE e
       IN  /\ getPollingState(store[sk], {}).consecutiveFailures < MaxCount
           /\ store' = [store EXCEPT ![sk] = r.entry]
           /\ Apply(finishPoll(S1, e1))
           /\ breaker' = IF shouldDisable
                         THEN [breaker EXCEPT ![e.jobKey] = "open"] ELSE breaker
    /\ UNCHANGED <<dbConfigs, published>>
    /\ lastCheck' = NoCheck
    /\ lastLoad' = NoLoad
    /\ UNCHANGED <<kvars, psvars, rlvars, bvars, ovars>>

\* a callback inside executePoll takes its next step.
\* limiterFaulty, storeFaulty: the Redis of the rate limiter, of the state
\* store may fail; limited: a rate-limit key may be found full; sends:
\* whether a cycle may find records to publish
ExecStep(limiterFaulty, storeFaulty, limited, sends) ==
    \E e \in BagToSet(execs) :
        \/ \E minute \in Checks(60, RequestsPerMinute,
                                  Drawn(limiterFaulty, RlFaults), limited),
              hour \in Checks(3600, RequestsPerHour,
                                Drawn(limiterFaulty, RlFaults), limited) :
              ExecRate(e, minute, hour)
        \/ \E faults \in Drawn(storeFaulty, AttemptFaults) : ExecAttempt(e, faults)
        \/ \E ok \in BOOLEAN, sent \in sends : ExecPoll(e, ok, sent)
        \/ \E faults \in Drawn(storeFaulty, SuccessFaults) : ExecSuccess(e, faults)
        \/ \E error \in SchedErrors, faults \in Drawn(storeFaulty, FailFaults) :
              ExecFailure(e, error, faults)

\* an administrator calls resetFailureCount for a configuration; the count
\* it resets is the one of every job that shares the state key
ResetFailureCount(faulty) ==
    /\ \E c \in SchedConfigs, faults \in Drawn(faulty, SuccessFaults) :
          /\ store' = [store EXCEPT ![StateKeyTable[c]] = resetFailureCount(@, faults)]
          /\ breaker' = [k \in JobKeys |->
                           IF /\ breaker[k] = "open"
                              /\ StateKeyOfJob(k) = StateKeyTable[c]
                              /\ "hSet" \notin faults
                           THEN "reset" ELSE breaker[k]]
    /\ UNCHANGED <<isRunning, dbConfigs, jobs, leaked, execs, published>>
    /\ lastCheck' = NoCheck
    /\ lastLoad' = NoLoad
    /\ UNCHANGED <<kvars, psvars, rlvars, bvars, ovars>>

\* the TTL of a state key runs out: Redis removes the key
ExpireKey ==
    /\ \E sk \in StateKeys :
          /\ store[sk].ttl # NoTTL
          /\ store' = [store EXCEPT ![sk] = AbsentEntry]
    /\ UNCHANGED <<isRunning, dbConfigs, jobs, leaked, execs, published, breaker>>
    /\ lastCheck' = NoCheck
    /\ lastLoad' = NoLoad
    /\ UNCHANGED <<kvars, psvars, rlvars, bvars, ovars>>

\* the steps of a deployment whose configurations are edited and whose
\* database and rate limiter may fail
SchedNext ==
    \/ Start
    \/ EditConfig
    \/ Reconcile(FALSE)
    \/ ReconcileFails
    \/ TimerFire
    \/ ExecStep(TRUE, FALSE, TRUE, BOOLEAN)
    \/ ResetFailureCount(FALSE)

\* the steps of a deployment whose state store may fail and whose state keys
\* may outlive their TTL
FaultsNext ==
    \/ Start
    \/ Reconcile(TRUE)
    \/ ReconcileFails
    \/ TimerFire
    \/ ExecStep(FALSE, TRUE, TRUE, BOOLEAN)
    \/ ResetFailureCount(TRUE)
    \/ ExpireKey

\* a callback inside executePoll takes its next step; the rate limiter's
\* Redis and the state store's Redis under updateFailedPoll may fail, and
\* the cycle itself (request, extraction, publishing) may fail
ExecStepErrors ==
    \E e \in BagToSet(execs) :
        \/ \E minute \in Checks(60, RequestsPerMinute, RlFaults, FALSE),
              hour \in Checks(3600, RequestsPerHour, RlFaults, FALSE) :
              ExecRate(e, minute, hour)
        \/ ExecAttempt(e, {})
        \/ \E ok \in BOOLEAN : ExecPoll(e, ok, FALSE)
        \/ ExecSuccess(e, {})
        \/ \E error \in SchedErrors, faults \in FailFaults :
              ExecFailure(e, error, faults)

\* the steps of a deployment of two jobs whose cycles and backends may fail
ErrorsNext ==
    \/ Start
    \/ Reconcile(FALSE)
    \/ TimerFire
    \/ ExecStepErrors

\* the steps of a deployment whose configurations are not edited, whose
\* backends do not fail, whose rate limits are not reached, whose sources
\* have no new records and whose state keys are written within their TTL
TwoNext ==
    \/ Start
    \/ Reconcile(FALSE)
    \/ TimerFire
    \/ ExecStep(FALSE, FALSE, FALSE, {FALSE})
    \/ ResetFailureCount(FALSE)

-----------------------------------------------------------------------------
(* JSON values, jsonpath and DataExtractor.extractData *)

\* a JSON value: its type t and, by type, a number n, a string s, the
\* elements a of an array or the members o of an object (name and value)
JValue(t, n, str, a, o) == [t |-> t, n |-> n, s |-> str, a |-> a, o |-> o]

JNull == JValue("null", 0, <<>>, <<>>, <<>>)

JNum(n) == JValue("num", n, <<>>, <<>>, <<>>)

JStr(str) == JValue("str", 0, str, <<>>, <<>>)

JArr(a) == JValue("arr", 0, <<>>, a, <<>>)

JObj(o) == JValue("obj", 0, <<>>, <<>>, o)

\* Array.isArray(v)
IsArray(v) == v.t = "arr"

\* the values of the members of an object, in order
RECURSIVE MemberValues(_)
MemberValues(o) ==
    IF o = <<>> THEN <<>> ELSE <<Head(o)[2]>> \o MemberValues(Tail(o))

\* the value of the member called name, as a list of no or one value
RECURSIVE MemberNamed(_, _)
MemberNamed(o, name) ==
    IF o = <<>> THEN <<>>
    ELSE IF Head(o)[1] = name THEN <<Head(o)[2]>>
    ELSE MemberNamed(Tail(o), name)

\* a step of a JSONPath expression: .name, [i] or [*]
Child(name) == [k |-> "child", name |-> name, i |-> 0]

Index(i) == [k |-> "index", name |-> "", i |-> i]

Wild == [k |-> "wild", name |-> "", i |-> 0]

\* response_path and next_page_path: not set, a JSONPath expression given
\* by its steps after $, or a string that is no JSONPath expression
NoPath == [defined |-> FALSE, valid |-> FALSE, steps |-> <<>>]

Path(steps) == [defined |-> TRUE, valid |-> TRUE, steps |-> steps]

BadPath == [defined |-> TRUE, valid |-> FALSE, steps |-> <<>>]

\* what one step selects from one value
StepFrom(v, step) ==
    IF step.k = "child"
    THEN (IF v.t = "obj" THEN MemberNamed(v.o, step.name) ELSE <<>>)
    ELSE IF step.k = "index"
    THEN (IF v.t = "arr" /\ step.i < Len(v.a) THEN <<v.a[step.i + 1]>> ELSE <<>>)
    ELSE (IF v.t = "arr" THEN v.a
          ELSE IF v.t = "obj" THEN MemberValues(v.o) ELSE <<>>)

RECURSIVE StepFromAll(_, _)
StepFromAll(values, step) ==
    IF values = <<>> THEN <<>>
    ELSE StepFrom(Head(values), step) \o StepFromAll(Tail(values), step)

RECURSIVE Select(_, _)
Select(values, steps) ==
    IF steps = <<>> THEN values
    ELSE Select(StepFromAll(values, Head(steps)), Tail(steps))

\* jsonpath.query(obj, pathExpression): the matches in document order; it
\* throws when obj is no object or array and when the expression does not
\* parse
jsonpathQuery(obj, path) ==
    IF ~path.valid \/ obj.t \notin {"obj", "arr"}
    THEN [threw |-> TRUE, results |-> <<>>]
    ELSE [threw |-> FALSE, results |-> Select(<<obj>>, path.steps)]

\* extractData that returns what the path selected as it is
extractData_NoWrap(data, data_extraction) ==
    IF data_extraction.response_path.defined
    THEN LET q == jsonpathQuery(data, data_extraction.response_path)
         IN  IF q.threw THEN [threw |-> TRUE, data |-> JNull]
             ELSE [threw |-> FALSE,
                   data  |-> IF Len(q.results) = 1 THEN q.results[1]
                             ELSE JArr(q.results)]
    ELSE [threw |-> FALSE, data |-> data]

\* extractData(response, config), data being response.data: threw when it
\* throws "Failed to extract data using path", the array it returns otherwise
extractData(data, data_extraction) ==
    LET extracted ==
            IF data_extraction.response_path.defined
            THEN LET q == jsonpathQuery(data, data_extraction.response_path)
                 IN  IF q.threw THEN [threw |-> TRUE, data |-> JNull]
                     ELSE [threw |-> FALSE,
                           data  |-> IF Len(q.results) = 1 THEN q.results[1]
                                     ELSE JArr(q.results)]
            ELSE [threw |-> FALSE, data |-> data]
    IN  IF extracted.threw THEN extracted
        ELSE IF ~IsArray(extracted.data)
        THEN [threw |-> FALSE, data |-> JArr(<<extracted.data>>)]
        ELSE extracted

-----------------------------------------------------------------------------
(* SpecExtract: extractData on one response body and one response_path *)

Rec(id) == JObj(<< <<"id", JNum(id)>> >>)

\* response bodies
Bodies ==
    { JObj(<< <<"items", JArr(<<Rec(1), Rec(2)>>)>> >>),
      JObj(<< <<"items", JArr(<<Rec(1)>>)>> >>),
      JObj(<< <<"items", JArr(<<>>)>> >>),
      JObj(<< <<"items", Rec(1)>> >>),
      JObj(<< <<"items", JArr(<<JArr(<<Rec(1), Rec(2)>>)>>)>> >>),
      JObj(<< <<"items", JNull>> >>),
      Rec(1),
      JArr(<<Rec(1), Rec(2)>>),
      JStr(<<"o","k">>) }

\* response_path: unset, $.items, $.items[*], $.items[0], $.items[1],
\* $.none, $[*] and a malformed expression
ResponsePaths ==
    { NoPath,
      Path(<<Child("items")>>),
      Path(<<Child("items"), Wild>>),
      Path(<<Child("items"), Index(0)>>),
      Path(<<Child("items"), Index(1)>>),
      Path(<<Child("none")>>),
      Path(<<Wild>>),
      BadPath }

NoOutput == [none |-> TRUE]

ExtractInit ==
    /\ exIn \in [data : Bodies, path : ResponsePaths]
    /\ exOut = NoOutput

\* no call of extractData
ExtractIdle ==
    /\ exIn = [data |-> JNull, path |-> NoPath]
    /\ exOut = NoOutput

\* extractData(response, config) is called
Extract ==
    /\ exOut = NoOutput
    /\ exOut' = extractData(exIn.data, [response_path |-> exIn.path])
    /\ UNCHANGED exIn
    /\ UNCHANGED <<kvars, psvars, rlvars, svars, fvars, dvars, gvars, ovars>>

ExtractNext == Extract

-----------------------------------------------------------------------------
(* DataExtractor: pagination *)

\* a Record<string, any>: a function from parameter names to JSON values
NoParams == [n \in {} |-> JNull]

\* params[name] = value
SetParam(params, name, value) ==
    [n \in DOMAIN params \cup {name} |-> IF n = name THEN value ELSE params[n]]

\* a spread in which the earlier object wins
Spread_FirstWins(a, b) ==
    [n \in DOMAIN a \cup DOMAIN b |-> IF n \in DOMAIN a THEN a[n] ELSE b[n]]

\* { ...a, ...b }
Spread(a, b) ==
    [n \in DOMAIN a \cup DOMAIN b |-> IF n \in DOMAIN b THEN b[n] ELSE a[n]]

\* a JSON value where the code tests it (if (v), v || d)
Truthy(v) ==
    \/ v.t \in {"obj", "arr"}
    \/ v.t = "num" /\ v.n # 0
    \/ v.t = "str" /\ v.s # <<>>

\* params[name] where the code tests it; a missing name is undefined
Has(params, name) == name \in DOMAIN params /\ Truthy(params[name])

\* the number NaN as a JSON value
JNaN == JValue("nan", 0, <<>>, <<>>, <<>>)

\* parseInt(currentParams[name] || dflt): the number, or NaN
parseIntOr(params, name, dflt) ==
    IF ~Has(params, name) THEN dflt
    ELSE IF params[name].t = "num" THEN params[name].n
    ELSE IF params[name].t = "str" THEN parseInt(params[name].s)
    ELSE NaN

\* a + b that leaves a as it is
Plus_NoAdd(a, b) == IF a = NaN \/ b = NaN THEN JNaN ELSE JNum(a)

\* a + b of two numbers
Plus(a, b) == IF a = NaN \/ b = NaN THEN JNaN ELSE JNum(a + b)

\* data_extraction.pagination; "" is a parameter name that is not set
NoPagination ==
    [defined |-> FALSE, type |-> "", limit_param |-> "", offset_param |-> "",
     cursor_param |-> "", page_param |-> "", per_page_param |-> "",
     next_page_path |-> NoPath]

DEFAULT_PAGE_SIZE == 50

getInitialPaginationParams(config) ==
    LET pagination == config.data_extraction.pagination
    IN  IF ~pagination.defined THEN NoParams
        ELSE IF pagination.type = "page" THEN
            LET p1 == IF pagination.page_param # ""
                      THEN SetParam(NoParams, pagination.page_param, JNum(1))
                      ELSE NoParams
            IN  IF pagination.per_page_param # ""
                THEN SetParam(p1, pagination.per_page_param, JNum(DEFAULT_PAGE_SIZE))
                ELSE p1
        ELSE IF pagination.type = "offset" THEN
            LET p1 == IF pagination.offset_param # ""
                      THEN SetParam(NoParams, pagination.offset_param, JNum(0))
                      ELSE NoParams
            IN  IF pagination.limit_param # ""
                THEN SetParam(p1, pagination.limit_param, JNum(DEFAULT_PAGE_SIZE))
                ELSE p1
        ELSE IF pagination.type = "cursor" THEN
            LET limitParam == IF pagination.per_page_param # ""
                              THEN pagination.per_page_param
                              ELSE pagination.limit_param
            IN  IF limitParam # ""
                THEN SetParam(NoParams, limitParam, JNum(DEFAULT_PAGE_SIZE))
                ELSE NoParams
        ELSE NoParams

\* lastPollTimestamp: the stored lastSuccessfulPoll, Undefined for null;
\* new Date(stored).toISOString() is the value of since
addIncrementalParams(params, lastPollTimestamp, config) ==
    IF lastPollTimestamp = Undefined THEN params
    ELSE IF ~Has(params, "since") /\ ~Has(params, "updated_after")
            /\ ~Has(params, "modified_since")
    THEN SetParam(params, "since", JStr(toISOString(parseInt(lastPollTimestamp))))
    ELSE params

\* hasNextPage(response, config), data being response.data
hasNextPage(data, config) ==
    LET pagination == config.data_extraction.pagination
    IN  IF ~pagination.defined THEN FALSE
        ELSE IF pagination.type = "cursor" THEN
            IF pagination.next_page_path.defined
            THEN LET nextCursor == jsonpathQuery(data, pagination.next_page_path)
                 IN  /\ ~nextCursor.threw
                     /\ Len(nextCursor.results) > 0
                     /\ nextCursor.results[1] # JNull
            ELSE FALSE
        ELSE IF pagination.type \in {"page", "offset"} THEN
            LET extractedData == extractData(data, config.data_extraction)
            IN  ~extractedData.threw /\ Len(extractedData.data.a) > 0
        ELSE FALSE

\* getNextPageParams(response, config, currentParams)
getNextPageParams(data, config, currentParams) ==
    LET pagination == config.data_extraction.pagination
    IN  IF ~pagination.defined THEN NoParams
        ELSE IF pagination.type = "cursor" THEN
            IF pagination.cursor_param # "" /\ pagination.next_page_path.defined
            THEN LET nextCursor == jsonpathQuery(data, pagination.next_page_path)
                 IN  IF ~nextCursor.threw /\ Len(nextCursor.results) > 0
                     THEN SetParam(NoParams, pagination.cursor_param,
                                   nextCursor.results[1])
                     ELSE NoParams
            ELSE NoParams
        ELSE IF pagination.type = "page" THEN
            LET p1 == IF pagination.page_param # ""
                      THEN LET currentPage ==
                                   parseIntOr(currentParams, pagination.page_param, 1)
                           IN  SetParam(NoParams, pagination.page_param,
                                        Plus(currentPage, 1))
                      ELSE NoParams
            IN  IF pagination.per_page_param # ""
                   /\ ~Has(currentParams, pagination.per_page_param)
                THEN SetParam(p1, pagination.per_page_param, JNum(DEFAULT_PAGE_SIZE))
                ELSE p1
        ELSE IF pagination.type = "offset" THEN
            IF pagination.offset_param # "" /\ pagination.limit_param # ""
            THEN LET currentOffset ==
                         parseIntOr(currentParams, pagination.offset_param, 0)
                     limit ==
                         parseIntOr(currentParams, pagination.limit_param,
                                    DEFAULT_PAGE_SIZE)
                     p1 == SetParam(NoParams, pagination.offset_param,
                                    Plus(currentOffset, limit))
                 IN  SetParam(p1, pagination.limit_param,
                              IF limit = NaN THEN JNaN ELSE JNum(limit))
            ELSE NoParams
        ELSE NoParams

-----------------------------------------------------------------------------
(* SpecFetch: one generic cycle, DefaultPollingBehavior.poll under          *)
(* pollWithBehavior                                                        *)

\* the pages requested per poll at most
MAX_PAGES == 10

NoResult == [none |-> TRUE]

Pagination(type, limit, offset, cursor, page, perPage, nextPath) ==
    [defined |-> TRUE, type |-> type, limit_param |-> limit,
     offset_param |-> offset, cursor_param |-> cursor, page_param |-> page,
     per_page_param |-> perPage, next_page_path |-> nextPath]

CursorPagination ==
    Pagination("cursor", "limit", "", "cursor", "", "", Path(<<Child("next")>>))

PagePagination == Pagination("page", "", "", "", "page", "per_page", NoPath)

OffsetPagination == Pagination("offset", "limit", "offset", "", "", "", NoPath)

DataExtraction(rp, pg) == [data_extraction |-> [response_path |-> rp, pagination |-> pg]]

\* data_extraction of the configurations explored
FetchConfigs ==
    { DataExtraction(Path(<<Child("items")>>), NoPagination),
      DataExtraction(Path(<<Child("items")>>), CursorPagination),
      DataExtraction(Path(<<Child("items")>>), PagePagination),
      DataExtraction(Path(<<Child("items")>>), OffsetPagination),
      DataExtraction(NoPath, NoPagination),
      DataExtraction(NoPath, CursorPagination),
      DataExtraction(BadPath, PagePagination) }

\* the cursor a source with cursors hands out in answer to a request: "abc"
\* to a request without cursor or with the cursor 0, the number 0 to a
\* request with the cursor "abc"
NextCursor(params) ==
    IF "cursor" \in DOMAIN params /\ params["cursor"] = JStr(<<"a","b","c">>)
    THEN JNum(0)
    ELSE JStr(<<"a","b","c">>)

\* the bodies a source answers a request with: a page of no or one record
\* and, from a source with cursors, the cursor of the next page, null, or no
\* cursor at all; or a body that is no JSON document but a text
FetchBodies(config, params) ==
    IF config.data_extraction.pagination.type = "cursor"
    THEN { JObj(<< <<"items", JArr(<<>>)>>, <<"next", JNull>> >>),
           JObj(<< <<"items", JArr(<<Rec(1)>>)>>, <<"next", JNull>> >>),
           JObj(<< <<"items", JArr(<<Rec(1)>>)>> >>),
           JObj(<< <<"items", JArr(<<Rec(1)>>)>>,
                   <<"next", NextCursor(params)>> >>),
           JStr(<<"o","k">>) }
    ELSE { JObj(<< <<"items", JArr(<<>>)>> >>),
           JObj(<< <<"items", JArr(<<Rec(1)>>)>> >>),
           JStr(<<"o","k">>) }

\* what apiClient.makeRequest does: it resolves with a response of some
\* body, or throws (network error, timeout, status outside 2xx)
FetchAnswers(config, params) ==
    {[ok |-> TRUE, data |-> b] : b \in FetchBodies(config, params)}
        \cup {[ok |-> FALSE, data |-> JNull]}

\* the state the behavior's state store may return: none stored, or a
\* lastSuccessfulPoll
FetchStates ==
    { AbsentEntry,
      hSet(AbsentEntry, [f \in {"lastSuccessfulPoll"} |-> toISOString(SchedNow)]) }

\* the loop condition of poll without the page limit
LoopContinues_NoLimit(more, count) == more

\* while (hasMorePages && pageCount < 10)
LoopContinues(more, count) == more /\ count < MAX_PAGES

\* a generic cycle is about to start for one of the given configurations
FetchInitOf(configs) ==
    /\ fConfig \in configs
    /\ fPc = "state"
    /\ pageCount = 0
    /\ hasMorePages = TRUE
    /\ allRecords = <<>>
    /\ paginationParams = getInitialPaginationParams(fConfig)
    /\ fRequests = <<>>
    /\ fAnswers = <<>>
    /\ fResult = NoResult
    /\ fSent = <<>>

FetchInit == FetchInitOf(FetchConfigs)

\* the pagination descriptors of the three types with any subset of the
\* optional parameter names their type reads
PagingConfigs ==
    { DataExtraction(Path(<<Child("items")>>),
                     Pagination("cursor", limit, "", cursor, "", "", nextPath)) :
        limit \in {"", "limit"}, cursor \in {"", "cursor"},
        nextPath \in {NoPath, Path(<<Child("next")>>)} }
    \cup
    { DataExtraction(Path(<<Child("items")>>),
                     Pagination("page", "", "", "", page, perPage, NoPath)) :
        page \in {"", "page"}, perPage \in {"", "per_page"} }
    \cup
    { DataExtraction(Path(<<Child("items")>>),
                     Pagination("offset", limit, offset, "", "", "", NoPath)) :
        limit \in {"", "limit"}, offset \in {"", "offset"} }

\* no generic cycle
FetchIdle ==
    /\ fConfig = [data_extraction |-> [response_path |-> NoPath,
                                        pagination |-> NoPagination]]
    /\ fPc = "done"
    /\ pageCount = 0
    /\ hasMorePages = FALSE
    /\ allRecords = <<>>
    /\ paginationParams = NoParams
    /\ fRequests = <<>>
    /\ fAnswers = <<>>
    /\ fResult = NoResult
    /\ fSent = <<>>

fothers == <<kvars, psvars, rlvars, svars, dvars, gvars, evars, ovars>>

\* poll: getPollingState resolves and addIncrementalParams is applied
FState ==
    /\ fPc = "state"
    /\ \E entry \in FetchStates, faults \in {{}, {"hGetAll"}} :
          LET pollingState == getPollingState(entry, faults)
          IN  paginationParams' =
                  addIncrementalParams(paginationParams,
                                       pollingState.lastSuccessfulPoll, fConfig)
    /\ fPc' = "page"
    /\ UNCHANGED <<fConfig, pageCount, hasMorePages, allRecords, fRequests,
                   fAnswers, fResult, fSent>>
    /\ UNCHANGED fothers

\* an iteration of poll that publishes the records of its page at once
FPage_PublishesPage ==
    /\ fPc = "page"
    /\ LoopContinues(hasMorePages, pageCount)
    /\ pageCount' = pageCount + 1
    /\ fRequests' = Append(fRequests, paginationParams)
    /\ \E answer \in FetchAnswers(fConfig, paginationParams) :
          /\ fAnswers' = Append(fAnswers, answer)
          /\ LET extractedData == extractData(answer.data, fConfig.data_extraction)
             IN  IF ~answer.ok \/ extractedData.threw
                 THEN /\ fPc' = "failed"
                      /\ UNCHANGED <<hasMorePages, allRecords, paginationParams, fSent>>
                 ELSE /\ allRecords' = allRecords \o extractedData.data.a
                      /\ fSent' = fSent \o extractedData.data.a
                      /\ hasMorePages' = hasNextPage(answer.data, fConfig)
                      /\ paginationParams' =
                            IF hasNextPage(answer.data, fConfig)
                            THEN Spread(paginationParams,
                                        getNextPageParams(answer.data, fConfig,
                                                          paginationParams))
                            ELSE paginationParams
                      /\ UNCHANGED fPc
    /\ UNCHANGED <<fConfig, fResult>>
    /\ UNCHANGED fothers

\* poll: one iteration of the loop, from pageCount++ to the end of the body;
\* what the request or extractData throws leaves poll and pollWithBehavior
FPage ==
    /\ fPc = "page"
    /\ LoopContinues(hasMorePages, pageCount)
    /\ pageCount' = pageCount + 1
    /\ fRequests' = Append(fRequests, paginationParams)
    /\ \E answer \in FetchAnswers(fConfig, paginationParams) :
          /\ fAnswers' = Append(fAnswers, answer)
          /\ LET extractedData == extractData(answer.data, fConfig.data_extraction)
             IN  IF ~answer.ok \/ extractedData.threw
                 THEN /\ fPc' = "failed"
                      /\ UNCHANGED <<hasMorePages, allRecords, paginationParams>>
                 ELSE /\ allRecords' = allRecords \o extractedData.data.a
                      /\ hasMorePages' = hasNextPage(answer.data, fConfig)
                      /\ paginationParams' =
                            IF hasNextPage(answer.data, fConfig)
                            THEN Spread(paginationParams,
                                        getNextPageParams(answer.data, fConfig,
                                                          paginationParams))
                            ELSE paginationParams
                      /\ UNCHANGED fPc
    /\ UNCHANGED <<fConfig, fResult, fSent>>
    /\ UNCHANGED fothers

\* poll returns its PollingResult to pollWithBehavior
FReturn ==
    /\ fPc = "page"
    /\ ~LoopContinues(hasMorePages, pageCount)
    /\ fResult' = [records        |-> allRecords,
                   totalRecords   |-> Len(allRecords),
                   pagesProcessed |-> pageCount,
                   hasMoreData    |-> hasMorePages]
    /\ fPc' = "publish"
    /\ UNCHANGED <<fConfig, pageCount, hasMorePages, allRecords, paginationParams,
                   fRequests, fAnswers, fSent>>
    /\ UNCHANGED fothers

\* pollWithBehavior: publishToKafka of the next record resolves or throws
FPublish ==
    /\ fPc = "publish"
    /\ Len(fSent) < Len(fResult.records)
    /\ \E ok \in BOOLEAN :
          IF ok THEN /\ fSent' = Append(fSent, fResult.records[Len(fSent) + 1])
                     /\ UNCHANGED fPc
          ELSE /\ fPc' = "failed"
               /\ UNCHANGED fSent
    /\ UNCHANGED <<fConfig, pageCount, hasMorePages, allRecords, paginationParams,
                   fRequests, fAnswers, fResult>>
    /\ UNCHANGED fothers

\* pollWithBehavior returns, every record sent
FDone ==
    /\ fPc = "publish"
    /\ Len(fSent) = Len(fResult.records)
    /\ fPc' = "done"
    /\ UNCHANGED <<fConfig, pageCount, hasMorePages, allRecords, paginationParams,
                   fRequests, fAnswers, fResult, fSent>>
    /\ UNCHANGED fothers

FetchNext ==
    \/ FState
    \/ FPage
    \/ FReturn
    \/ FPublish
    \/ FDone

-----------------------------------------------------------------------------
(* SpecDiscourse: one cycle of DiscoursePollingBehavior.poll, which runs
   DiscourseClient.fetchPostsWithDetails *)

\* fetchPostsWithDetails(afterDate, undefined, 5) in poll
DISCOURSE_MAX_PAGES == 5

\* a post of a search page
SearchPost(id, topic_id) ==
    [id |-> id, topic_id |-> topic_id, topic_title_headline |-> <<"h", id>>]

\* a post of a topic's post stream
DetailedPost(id, topic_id) ==
    [id |-> id, topic_id |-> topic_id, topic_title_headline |-> <<>>]

\* what a search request can be answered with on a page: no posts, or the
\* posts of two topics mixed
SearchPosts(page) ==
    { <<>>,
      <<SearchPost(10 * page + 1, 1), SearchPost(10 * page + 2, 2),
        SearchPost(10 * page + 3, 1)>> }

RECURSIVE groupPostsByTopic(_)
\* the groups in the order of the first post of each topic, the posts of a
\* group in the order of the page
groupPostsByTopic(posts) ==
    IF posts = <<>> THEN <<>>
    ELSE LET n == Len(posts)
             before == groupPostsByTopic(SubSeq(posts, 1, n - 1))
             post == posts[n]
         IN  IF \E g \in 1..Len(before) : before[g].topicId = post.topic_id
             THEN [g \in 1..Len(before) |->
                      IF before[g].topicId = post.topic_id
                      THEN [before[g] EXCEPT !.posts = Append(@, post)]
                      ELSE before[g]]
             ELSE Append(before, [topicId |-> post.topic_id, posts |-> <<post>>])

\* the detailed posts with the headline of the search post of the same id,
\* '' when there is none
mergePostData(searchPosts, detailedPosts) ==
    [i \in 1..Len(detailedPosts) |->
        [detailedPosts[i] EXCEPT !.topic_title_headline =
            IF \E j \in 1..Len(searchPosts) : searchPosts[j].id = detailedPosts[i].id
            THEN LET j == CHOOSE j \in 1..Len(searchPosts) :
                              searchPosts[j].id = detailedPosts[i].id
                 IN  searchPosts[j].topic_title_headline
            ELSE <<>>]]

\* the post stream a topic answers the posts of a group with
PostStream(group) ==
    [i \in 1..Len(group.posts) |->
        DetailedPost(group.posts[i].id, group.topicId)]

SearchAnswer(page, outcome, posts) ==
    [kind |-> "search", page |-> page, topicId |-> 0, outcome |-> outcome,
     posts |-> posts]

DetailAnswer(page, topicId, outcome, posts) ==
    [kind |-> "detail", page |-> page, topicId |-> topicId, outcome |-> outcome,
     posts |-> posts]

\* no cycle of the Discourse behavior
DiscourseIdle ==
    /\ dPc = "idle"
    /\ dPage = 0
    /\ dTopics = <<>>
    /\ allDetailedPosts = <<>>
    /\ dAnswers = <<>>
    /\ dResult = NoResult

\* poll has been called
DiscourseInit ==
    /\ dPc = "poll"
    /\ dPage = 0
    /\ dTopics = <<>>
    /\ allDetailedPosts = <<>>
    /\ dAnswers = <<>>
    /\ dResult = NoResult

dothers == <<kvars, psvars, rlvars, svars, fvars, gvars, evars, ovars>>

\* poll: the client is built, the polling state read (getPollingState never
\* rejects) and fetchPostsWithDetails entered; afterDate only goes into the
\* query of the search requests
DcPoll ==
    /\ dPc = "poll"
    /\ dPc' = "search"
    /\ dPage' = 1
    /\ UNCHANGED <<dTopics, allDetailedPosts, dAnswers, dResult>>
    /\ UNCHANGED dothers

\* searchPostsInTimeRange of the page: a rejection leaves
\* fetchPostsWithDetails and poll; no posts end the search; posts are grouped
DcSearch ==
    /\ dPc = "search"
    /\ \/ /\ dAnswers' = Append(dAnswers, SearchAnswer(dPage, "fail", <<>>))
          /\ dPc' = "failed"
          /\ UNCHANGED dTopics
       \/ \E posts \in SearchPosts(dPage) :
             /\ dAnswers' = Append(dAnswers, SearchAnswer(dPage, "ok", posts))
             /\ IF Len(posts) = 0
                THEN dPc' = "return" /\ UNCHANGED dTopics
                ELSE dPc' = "details" /\ dTopics' = groupPostsByTopic(posts)
    /\ UNCHANGED <<dPage, allDetailedPosts, dResult>>
    /\ UNCHANGED dothers

\* getPostDetails of the next group whose rejection leaves the cycle
DcDetail_Aborts ==
    /\ dPc = "details"
    /\ dTopics # <<>>
    /\ LET group == Head(dTopics)
       IN  \/ /\ dAnswers' = Append(dAnswers,
                     DetailAnswer(dPage, group.topicId, "ok", PostStream(group)))
              /\ allDetailedPosts' =
                     allDetailedPosts \o mergePostData(group.posts, PostStream(group))
              /\ dTopics' = Tail(dTopics)
              /\ UNCHANGED dPc
           \/ /\ dAnswers' = Append(dAnswers,
                     DetailAnswer(dPage, group.topicId, "nostream", <<>>))
              /\ dTopics' = Tail(dTopics)
              /\ UNCHANGED <<allDetailedPosts, dPc>>
           \/ /\ dAnswers' = Append(dAnswers,
                     DetailAnswer(dPage, group.topicId, "fail", <<>>))
              /\ dPc' = "failed"
              /\ UNCHANGED <<allDetailedPosts, dTopics>>
    /\ UNCHANGED <<dPage, dResult>>
    /\ UNCHANGED dothers

\* getPostDetails of the next group of the page: its posts are merged and
\* pushed; an answer without post_stream pushes nothing; a rejection is
\* caught, logged, and the loop goes on with the next group
DcDetail ==
    /\ dPc = "details"
    /\ dTopics # <<>>
    /\ LET group == Head(dTopics)
       IN  \/ /\ dAnswers' = Append(dAnswers,
                     DetailAnswer(dPage, group.topicId, "ok", PostStream(group)))
              /\ allDetailedPosts' =
                     allDetailedPosts \o mergePostData(group.posts, PostStream(group))
           \/ /\ dAnswers' = Append(dAnswers,
                     DetailAnswer(dPage, group.topicId, "nostream", <<>>))
              /\ UNCHANGED allDetailedPosts
           \/ /\ dAnswers' = Append(dAnswers,
                     DetailAnswer(dPage, group.topicId, "fail", <<>>))
              /\ UNCHANGED allDetailedPosts
    /\ dTopics' = Tail(dTopics)
    /\ UNCHANGED <<dPc, dPage, dResult>>
    /\ UNCHANGED dothers

\* the groups of the page are done: page++ and the test page <= maxPages
DcNextPage ==
    /\ dPc = "details"
    /\ dTopics = <<>>
    /\ dPage' = dPage + 1
    /\ dPc' = IF dPage + 1 <= DISCOURSE_MAX_PAGES THEN "search" ELSE "return"
    /\ UNCHANGED <<dTopics, allDetailedPosts, dAnswers, dResult>>
    /\ UNCHANGED dothers

\* a poll that throws when no detailed post was collected
DcReturn_RejectsEmpty ==
    /\ dPc = "return"
    /\ IF allDetailedPosts = <<>>
       THEN /\ dPc' = "failed"
            /\ UNCHANGED dResult
       ELSE /\ dResult' = [records |-> allDetailedPosts,
                           totalRecords |-> Len(allDetailedPosts),
                           pagesProcessed |-> 1,
                           hasMoreData |-> FALSE]
            /\ dPc' = "done"
    /\ UNCHANGED <<dPage, dTopics, allDetailedPosts, dAnswers>>
    /\ UNCHANGED dothers

\* fetchPostsWithDetails returns allDetailedPosts and poll its PollingResult
DcReturn ==
    /\ dPc = "return"
    /\ dResult' = [records |-> allDetailedPosts,
                   totalRecords |-> Len(allDetailedPosts),
                   pagesProcessed |-> 1,
                   hasMoreData |-> FALSE]
    /\ dPc' = "done"
    /\ UNCHANGED <<dPage, dTopics, allDetailedPosts, dAnswers>>
    /\ UNCHANGED dothers

DiscourseNext ==
    \/ DcPoll
    \/ DcSearch
    \/ DcDetail
    \/ DcNextPage
    \/ DcReturn

-----------------------------------------------------------------------------
(* PollingBehaviorRegistry *)

\* the source types getBehavior is called with: enum SourceType, and a
\* string that is none of its values
LookupSourceTypes ==
    {"DISCOURSE", "INTERCOM", "PLAYSTORE", "TWITTER", "JSONPLACEHOLDER",
     "discourse"}

\* an instance of a behavior class; handles is what a behavior of another
\* class answers canHandle with
Behavior(class, instance, handles) ==
    [class |-> class, instance |-> instance, handles |-> handles]

\* new DiscoursePollingBehavior()
DiscoursePollingBehavior(instance) == Behavior("Discourse", instance, {})

\* new DefaultPollingBehavior()
DefaultPollingBehavior(instance) == Behavior("Default", instance, {})

\* behavior.canHandle(sourceType)
canHandle(behavior, sourceType) ==
    CASE behavior.class = "Discourse" -> sourceType = "DISCOURSE"
      [] behavior.class = "Default" -> TRUE
      [] OTHER -> sourceType \in behavior.handles

\* this.defaultBehavior, set by the constructor
defaultBehavior == DefaultPollingBehavior(0)

\* what registerDefaultBehaviors registers
DefaultRegistrations == <<DiscoursePollingBehavior(1)>>

\* the behaviors callers register
Registrable ==
    { Behavior("Custom", 2, {"INTERCOM"}),
      Behavior("Custom", 3, {"DISCOURSE", "INTERCOM"}),
      DiscoursePollingBehavior(4),
      DefaultPollingBehavior(5) }

\* the registry holds at most this many behaviors
MaxBehaviors == 3

NoLookup == [called |-> FALSE, sourceType |-> "", returned |-> defaultBehavior]

RECURSIVE find(_, _)
\* Array.prototype.find with canHandle: the first element that can handle
\* the source type, found FALSE when there is none
find(list, sourceType) ==
    IF list = <<>> THEN [found |-> FALSE, value |-> defaultBehavior]
    ELSE IF canHandle(Head(list), sourceType)
         THEN [found |-> TRUE, value |-> Head(list)]
         ELSE find(Tail(list), sourceType)

\* getBehavior that returns the last behavior that can handle the source type
getBehavior_LastMatch(sourceType) ==
    LET matches == {i \in 1..Len(behaviors) : canHandle(behaviors[i], sourceType)}
    IN  IF matches # {}
        THEN behaviors[CHOOSE i \in matches : \A j \in matches : j <= i]
        ELSE defaultBehavior

\* getBehavior(sourceType)
getBehavior(sourceType) ==
    LET specificBehavior == find(behaviors, sourceType)
    IN  IF specificBehavior.found THEN specificBehavior.value
        ELSE defaultBehavior

\* the registry after its constructor
RegistryInit ==
    /\ behaviors = DefaultRegistrations
    /\ lookup = NoLookup

gothers == <<kvars, psvars, rlvars, svars, fvars, dvars, evars, ovars>>

\* register(behavior)
Register ==
    /\ Len(behaviors) < MaxBehaviors
    /\ \E behavior \in Registrable :
          behaviors' = Append(behaviors, behavior)
    /\ lookup' = NoLookup
    /\ UNCHANGED gothers

\* getBehavior(sourceType) is called
GetBehavior ==
    /\ \E sourceType \in LookupSourceTypes :
          lookup' = [called |-> TRUE, sourceType |-> sourceType,
                     returned |-> getBehavior(sourceType)]
    /\ UNCHANGED behaviors
    /\ UNCHANGED gothers

RegistryNext ==
    \/ Register
    \/ GetBehavior

-----------------------------------------------------------------------------
(* PollingService: start(), stop() and loadPollingConfigurations step by    *)
(* step                                                                    *)

\* no loadPollingConfigurations in flight. pc: "find" while PollingConfig.find
\* is awaited, "configs" while shouldDisablePolling of a configuration is;
\* first: the call start() awaits; configs: what find returned; todo: the
\* configurations the first loop has not reached yet
NoLoading == [pc |-> "none", first |-> FALSE, configs |-> {}, todo |-> {}]

LifeIdle ==
    /\ lifecycle = [started |-> FALSE, stopped |-> FALSE, checkInterval |-> "none"]
    /\ loading = NoLoading

lothers == <<kvars, psvars, rlvars, bvars, xvars>>

\* start() from this.isRunning = true on: the connections are made, the
\* first loadPollingConfigurations is called and awaited. stop() may have
\* been called while start() awaited its connections.
StartService ==
    /\ ~lifecycle.started
    /\ isRunning' = TRUE
    /\ lifecycle' = [lifecycle EXCEPT !.started = TRUE]
    /\ loading' = [NoLoading EXCEPT !.pc = "find", !.first = TRUE]
    /\ UNCHANGED <<dbConfigs, jobs, leaked, execs, store, published, breaker>>
    /\ lastCheck' = NoCheck
    /\ lastLoad' = NoLoad
    /\ UNCHANGED lothers

\* the interval of checkInterval fires and calls loadPollingConfigurations;
\* one call is followed at a time
LoadTick ==
    /\ lifecycle.checkInterval = "set"
    /\ loading = NoLoading
    /\ loading' = [NoLoading EXCEPT !.pc = "find"]
    /\ UNCHANGED <<isRunning, dbConfigs, jobs, leaked, execs, store, published,
                   breaker, lifecycle>>
    /\ lastCheck' = NoCheck
    /\ lastLoad' = NoLoad
    /\ UNCHANGED lothers

\* loadPollingConfigurations returns; when it is the call start() awaited,
\* start() goes on and sets checkInterval
LoadEnds ==
    /\ loading' = NoLoading
    /\ lifecycle' = IF loading.first
                    THEN [lifecycle EXCEPT !.checkInterval = "set"]
                    ELSE lifecycle

\* PollingConfig.find resolves or throws; with no configuration found the
\* second loop runs at once
LoadFind ==
    /\ loading.pc = "find"
    /\ \/ /\ LoadEnds
          /\ UNCHANGED <<isRunning, jobs, leaked, execs>>
       \/ LET configs == findEnabled
          IN  IF configs = {}
              THEN /\ Apply(stopDisabled(Sched, {k \in JobKeys : jobs[k] # NoJob}, {}))
                   /\ LoadEnds
              ELSE /\ loading' = [loading EXCEPT !.pc = "configs",
                                                 !.configs = configs,
                                                 !.todo = configs]
                   /\ UNCHANGED <<isRunning, jobs, leaked, execs, lifecycle>>
    /\ UNCHANGED <<dbConfigs, store, published, breaker>>
    /\ lastCheck' = NoCheck
    /\ lastLoad' = NoLoad
    /\ UNCHANGED lothers

\* shouldDisablePolling of the next configuration resolves and the rest of
\* the iteration runs; after the last configuration the second loop runs
LoadConfig ==
    /\ loading.pc = "configs"
    /\ LET config == CHOOSE c \in loading.todo : TRUE
           rest == loading.todo \ {config}
           S1 == reconcileConfig(Sched, config, FALSE)
           S2 == IF rest = {}
                 THEN stopDisabled(S1, {k \in JobKeys : S1.jobs[k] # NoJob},
                                   loading.configs)
                 ELSE S1
       IN  /\ \A k \in JobKeys : Chains(S2, k) <= MaxChains
           /\ Apply(S2)
           /\ IF rest = {}
              THEN LoadEnds
              ELSE /\ loading' = [loading EXCEPT !.todo = rest]
                   /\ UNCHANGED lifecycle
    /\ UNCHANGED <<dbConfigs, store, published, breaker>>
    /\ lastCheck' = NoCheck
    /\ lastLoad' = NoLoad
    /\ UNCHANGED lothers

\* the loop of stop() over this.jobs
RECURSIVE stopAllJobs(_, _)
stopAllJobs(S, keys) ==
    IF keys = {} THEN S
    ELSE LET key == CHOOSE k \in keys : TRUE
         IN  stopAllJobs(stopPollingJob(S, key), keys \ {key})

\* stop() up to its first await: isRunning = false, clearInterval of a
\* checkInterval that is set, stopPollingJob of every job. What it awaits
\* after that (cleanup, disconnects) changes nothing of the scheduler, and
\* the process exits when it has resolved.
Stop ==
    /\ ~lifecycle.stopped
    /\ Apply(stopAllJobs([Sched EXCEPT !.running = FALSE],
                         {k \in JobKeys : jobs[k] # NoJob}))
    /\ lifecycle' = [lifecycle EXCEPT
                        !.stopped = TRUE,
                        !.checkInterval = IF @ = "set" THEN "cleared" ELSE @]
    /\ UNCHANGED <<dbConfigs, store, published, breaker, loading>>
    /\ lastCheck' = NoCheck
    /\ lastLoad' = NoLoad
    /\ UNCHANGED lothers

\* the steps of a service that is started and stopped while its
\* configurations are edited, loaded and polled
StopNext ==
    \/ StartService
    \/ Stop
    \/ LoadTick
    \/ LoadFind
    \/ LoadConfig
    \/ EditConfig
    \/ TimerFire
    \/ ExecStep(FALSE, FALSE, TRUE, {FALSE})

-----------------------------------------------------------------------------
(* RateLimiter and PollingStateService with concurrent callers: every
   await of a call is a step of its own, and the steps of different callers
   (jobs of one process, or several processes on one Redis) interleave *)

\* the number of concurrent callers
MaxCallers == 2

Callers == 1..MaxCallers

\* the number of calls of one kind explored
MaxShared == 3

NoCheckCall == [pc |-> "idle", now |-> 0]

NoUpdateCall == [pc |-> "idle", count |-> 0, error |-> <<>>, timestamp |-> <<>>]

SharedIdle ==
    /\ shWin = EmptyWindow
    /\ shNow = RlStart
    /\ shChecks = [p \in Callers |-> NoCheckCall]
    /\ shLog = <<>>
    /\ shEntry = AbsentEntry
    /\ shUpdates = [p \in Callers |-> NoUpdateCall]
    /\ shCompleted = 0

shlothers ==
    <<kvars, psvars, rlvars, svars, bvars, lvars, shsvars, cyvars, buvars, invars, dcvars, gtvars, dxvars>>

shsothers ==
    <<kvars, psvars, rlvars, svars, bvars, lvars, shlvars, cyvars, buvars, invars, dcvars, gtvars, dxvars>>

\* the isAllowed calls of the key that have begun
ChecksBegun ==
    Len(shLog) + Cardinality({p \in Callers : shChecks[p].pc # "idle"})

\* isAllowed up to the end of `await multi.exec()`: now is taken, the old
\* entries are removed and the rest counted in one transaction; a full
\* window returns false
IsAllowedExec(p) ==
    /\ shChecks[p].pc = "idle"
    /\ ChecksBegun < MaxShared
    /\ LET now == shNow
           windowStart == now - (RlWindowSeconds * 1000)
           pruned == zRemRangeByScore(shWin.z, 0, windowStart)
           currentCount == zCard(pruned)
       IN  /\ shWin' = [shWin EXCEPT !.z = pruned]
           /\ IF currentCount >= RlMaxRequests
              THEN /\ shLog' = Append(shLog, [t |-> now, allowed |-> FALSE])
                   /\ UNCHANGED shChecks
              ELSE /\ shChecks' = [shChecks EXCEPT ![p] = [pc |-> "counted", now |-> now]]
                   /\ UNCHANGED shLog
    /\ UNCHANGED shNow
    /\ UNCHANGED shlothers

\* `await this.redis.zAdd(key, { score: now, value: now.toString() })`
IsAllowedAdd(p) ==
    /\ shChecks[p].pc = "counted"
    /\ shWin' = [shWin EXCEPT !.z = zAdd(shWin.z, shChecks[p].now,
                                        toString(shChecks[p].now))]
    /\ shChecks' = [shChecks EXCEPT ![p].pc = "added"]
    /\ UNCHANGED <<shNow, shLog>>
    /\ UNCHANGED shlothers

\* `await this.redis.expire(key, windowSizeSeconds * 2)`, then return true
IsAllowedExpire(p) ==
    /\ shChecks[p].pc = "added"
    /\ shWin' = [shWin EXCEPT !.ttl = RlWindowSeconds * 2]
    /\ shLog' = Append(shLog, [t |-> shChecks[p].now, allowed |-> TRUE])
    /\ shChecks' = [shChecks EXCEPT ![p] = NoCheckCall]
    /\ UNCHANGED shNow
    /\ UNCHANGED shlothers

\* time passes
SharedAdvance ==
    /\ shNow < RlEnd
    /\ shNow' = shNow + RlStep
    /\ UNCHANGED <<shWin, shChecks, shLog>>
    /\ UNCHANGED shlothers

LimiterSharedNext ==
    \/ \E p \in Callers : IsAllowedExec(p)
    \/ \E p \in Callers : IsAllowedAdd(p)
    \/ \E p \in Callers : IsAllowedExpire(p)
    \/ SharedAdvance

\* the updateFailedPoll calls of the key that have begun
UpdatesBegun ==
    shCompleted + Cardinality({p \in Callers : shUpdates[p].pc # "idle"})

\* updateFailedPoll up to the end of `await this.getPollingState(...)`
UpdateFailedRead(p) ==
    /\ shUpdates[p].pc = "idle"
    /\ UpdatesBegun < MaxShared
    /\ \E error \in ErrorMessages :
          shUpdates' = [shUpdates EXCEPT ![p] =
                           [pc        |-> "read",
                            count     |-> getPollingState(shEntry, {}).consecutiveFailures,
                            error     |-> error,
                            timestamp |-> toISOString(0)]]
    /\ UNCHANGED <<shEntry, shCompleted>>
    /\ UNCHANGED shsothers

\* `await this.redis.hSet(key, {...})` with the count that was read
UpdateFailedHSet(p) ==
    /\ shUpdates[p].pc = "read"
    /\ LET newFailureCount == shUpdates[p].count + 1
       IN  shEntry' = hSet(shEntry,
                           [consecutiveFailures |-> toString(newFailureCount),
                            lastError           |-> shUpdates[p].error,
                            lastErrorTimestamp  |-> shUpdates[p].timestamp])
    /\ shUpdates' = [shUpdates EXCEPT ![p].pc = "written"]
    /\ UNCHANGED shCompleted
    /\ UNCHANGED shsothers

\* `await this.redis.expire(key, 30 * 24 * 60 * 60)`, then return
UpdateFailedExpire(p) ==
    /\ shUpdates[p].pc = "written"
    /\ shEntry' = expire(shEntry, STATE_TTL)
    /\ shUpdates' = [shUpdates EXCEPT ![p] = NoUpdateCall]
    /\ shCompleted' = shCompleted + 1
    /\ UNCHANGED shsothers

StateSharedNext ==
    \/ \E p \in Callers : UpdateFailedRead(p)
    \/ \E p \in Callers : UpdateFailedHSet(p)
    \/ \E p \in Callers : UpdateFailedExpire(p)

-----------------------------------------------------------------------------
(* PollingService.executePoll and pollWithBehavior, await by await: the
   cycles of one job and the operations each cycle has called so far *)

\* the number of cycles explored
MaxCycles == 2

\* the records a behavior's poll may return
CycleResults == { <<>>, <<1>>, <<1, 2>>, <<2, 1>> }

\* an operation a cycle called: ok is what a rate-limit check returned,
\* record the record a publish sent
Called(op, ok, record) == [op |-> op, ok |-> ok, record |-> record]

CycleIdle ==
    /\ cyPc = "none"
    /\ cyCycles = 0
    /\ cyTrace = <<>>
    /\ cyRecords = <<>>
    /\ cySent = <<>>
    /\ cyEntry = AbsentEntry
    /\ cyStopped = FALSE

cyothers ==
    <<kvars, psvars, rlvars, svars, bvars, lvars, shlvars, shsvars, buvars, invars, dcvars, gtvars, dxvars>>

\* the timer callback enters executePoll: job.isRunning = true
CyBegin ==
    /\ cyPc = "none"
    /\ ~cyStopped
    /\ cyCycles < MaxCycles
    /\ cyCycles' = cyCycles + 1
    /\ cyPc' = "minute"
    /\ cyTrace' = <<>>
    /\ cyRecords' = <<>>
    /\ cySent' = <<>>
    /\ UNCHANGED <<cyEntry, cyStopped>>
    /\ UNCHANGED cyothers

\* `await rateLimiter.isAllowed(rateLimitKey + ':minute', ...)`
CyMinute ==
    /\ cyPc = "minute"
    /\ \E minuteAllowed \in BOOLEAN :
          cyTrace' = Append(cyTrace, Called("minute", minuteAllowed, 0))
    /\ cyPc' = "hour"
    /\ UNCHANGED <<cyCycles, cyRecords, cySent, cyEntry, cyStopped>>
    /\ UNCHANGED cyothers

\* `await rateLimiter.isAllowed(rateLimitKey + ':hour', ...)`; a denial of
\* either check returns through finally
CyHour ==
    /\ cyPc = "hour"
    /\ \E hourAllowed \in BOOLEAN :
          LET minuteAllowed == cyTrace[1].ok
          IN  /\ cyTrace' = Append(cyTrace, Called("hour", hourAllowed, 0))
              /\ cyPc' = IF ~minuteAllowed \/ ~hourAllowed THEN "none" ELSE "attempt"
    /\ UNCHANGED <<cyCycles, cyRecords, cySent, cyEntry, cyStopped>>
    /\ UNCHANGED cyothers

\* `await pollingStateService.updateLastPollAttempt(...)`
CyAttempt ==
    /\ cyPc = "attempt"
    /\ cyEntry' = updateLastPollAttempt(cyEntry, toISOString(cyCycles), {})
    /\ cyTrace' = Append(cyTrace, Called("attempt", TRUE, 0))
    /\ cyPc' = "poll"
    /\ UNCHANGED <<cyCycles, cyRecords, cySent, cyStopped>>
    /\ UNCHANGED cyothers

\* pollWithBehavior: `await behavior.poll(context)` returns its result or
\* throws
CyPoll ==
    /\ cyPc = "poll"
    /\ cyTrace' = Append(cyTrace, Called("fetch", TRUE, 0))
    /\ \/ \E records \in CycleResults :
             /\ cyRecords' = records
             /\ cyPc' = "publish"
       \/ /\ cyPc' = "failure"
          /\ UNCHANGED cyRecords
    /\ UNCHANGED <<cyCycles, cySent, cyEntry, cyStopped>>
    /\ UNCHANGED cyothers

\* pollWithBehavior: `await this.publishToKafka(config, record, ...)` of the
\* next record resolves, or throws and leaves the loop
CyPublish ==
    /\ cyPc = "publish"
    /\ Len(cySent) < Len(cyRecords)
    /\ \E ok \in BOOLEAN :
          IF ok
          THEN /\ cySent' = Append(cySent, cyRecords[Len(cySent) + 1])
               /\ cyTrace' = Append(cyTrace,
                                    Called("publish", TRUE, cyRecords[Len(cySent) + 1]))
               /\ UNCHANGED cyPc
          ELSE /\ cyPc' = "failure"
               /\ UNCHANGED <<cySent, cyTrace>>
    /\ UNCHANGED <<cyCycles, cyRecords, cyEntry, cyStopped>>
    /\ UNCHANGED cyothers

\* updateSuccessfulPoll called before the loop has sent every record
CySuccess_Early ==
    /\ cyPc = "publish"
    /\ cyEntry' = updateSuccessfulPoll(cyEntry, toISOString(cyCycles), {})
    /\ cyTrace' = Append(cyTrace, Called("success", TRUE, 0))
    /\ cyPc' = "none"
    /\ UNCHANGED <<cyCycles, cyRecords, cySent, cyStopped>>
    /\ UNCHANGED cyothers

\* the loop is over, pollWithBehavior returns:
\* `await pollingStateService.updateSuccessfulPoll(...)`, then finally
CySuccess ==
    /\ cyPc = "publish"
    /\ Len(cySent) = Len(cyRecords)
    /\ cyEntry' = updateSuccessfulPoll(cyEntry, toISOString(cyCycles), {})
    /\ cyTrace' = Append(cyTrace, Called("success", TRUE, 0))
    /\ cyPc' = "none"
    /\ UNCHANGED <<cyCycles, cyRecords, cySent, cyStopped>>
    /\ UNCHANGED cyothers

\* the catch block: `await pollingStateService.updateFailedPoll(...)`,
\* stopPollingJob when it returned true, then finally
CyFailure ==
    /\ cyPc = "failure"
    /\ \E error \in ErrorMessages :
          LET r == updateFailedPoll(cyEntry, error, LiveMaxFailures,
                                    toISOString(cyCycles), {})
              shouldDisable == r.ret
          IN  /\ cyEntry' = r.entry
              /\ cyStopped' = shouldDisable
    /\ cyTrace' = Append(cyTrace, Called("failure", TRUE, 0))
    /\ cyPc' = "none"
    /\ UNCHANGED <<cyCycles, cyRecords, cySent>>
    /\ UNCHANGED cyothers

CycleNext ==
    \/ CyBegin
    \/ CyMinute
    \/ CyHour
    \/ CyAttempt
    \/ CyPoll
    \/ CyPublish
    \/ CySuccess
    \/ CyFailure

-----------------------------------------------------------------------------
(* ApiClient.buildUrl: the search parameters of the URL a request goes to,
   as the list of name/value pairs URLSearchParams holds *)

\* no object passed (undefined)
NoRecord == [undefined |-> TRUE]

\* the parameter names explored, in the order Object.entries lists them
ParamOrder == <<"limit", "page", "since">>

\* api_config.query_params: a Record<string, string>, or undefined
BuildQueryParams ==
    {NoRecord} \cup
    UNION {[names -> {<<"1">>, <<"9">>}] : names \in SUBSET {"limit", "page"}}

\* the additionalParams a behavior passes: a Record<string, any>
BuildAdditionalParams ==
    UNION {[names -> {JNum(2), JStr(<<"9">>), JNull}] :
              names \in SUBSET {"page", "since"}}

\* the search parameters the endpoint carries itself
BuildEndpoints == { <<>>, << <<"v", <<"1">> >> >> }

\* String(value) of a number or a string
StringOf(value) == IF value.t = "num" THEN toString(value.n) ELSE value.s

\* Object.entries(record) from position i of ParamOrder on
RECURSIVE entries(_, _)
entries(record, i) ==
    IF i > Len(ParamOrder) THEN <<>>
    ELSE IF ParamOrder[i] \in DOMAIN record
    THEN << <<ParamOrder[i], record[ParamOrder[i]]>> >> \o entries(record, i + 1)
    ELSE entries(record, i + 1)

\* url.searchParams.append for every entry of queryParams
RECURSIVE appendAll(_, _)
appendAll(searchParams, es) ==
    IF es = <<>> THEN searchParams
    ELSE appendAll(Append(searchParams, es[1]), Tail(es))

\* the second forEach: append(key, String(value)) unless the value is
\* undefined or null
RECURSIVE appendDefined(_, _)
appendDefined(searchParams, es) ==
    IF es = <<>> THEN searchParams
    ELSE IF es[1][2].t = "null" THEN appendDefined(searchParams, Tail(es))
    ELSE appendDefined(Append(searchParams, <<es[1][1], StringOf(es[1][2])>>),
                       Tail(es))

\* the search parameters of buildUrl(endpoint, queryParams, additionalParams)
buildUrl(endpoint, queryParams, additionalParams) ==
    LET configured == IF queryParams = NoRecord THEN endpoint
                      ELSE appendAll(endpoint, entries(queryParams, 1))
    IN  appendDefined(configured, entries(additionalParams, 1))

NoUrl == [built |-> FALSE]

BuildInit ==
    /\ buIn \in [endpoint : BuildEndpoints, queryParams : BuildQueryParams,
                 additionalParams : BuildAdditionalParams]
    /\ buOut = NoUrl

\* no call of buildUrl
BuildIdle ==
    /\ buIn = [endpoint |-> <<>>, queryParams |-> NoRecord,
               additionalParams |-> NoParams]
    /\ buOut = NoUrl

\* makeRequest calls buildUrl
BuildUrl ==
    /\ buOut = NoUrl
    /\ buOut' = [built |-> TRUE,
                 searchParams |-> buildUrl(buIn.endpoint, buIn.queryParams,
                                           buIn.additionalParams)]
    /\ UNCHANGED buIn
    /\ UNCHANGED <<kvars, psvars, rlvars, svars, bvars, lvars, shlvars, shsvars,
                   cyvars, invars, dcvars, gtvars, dxvars>>

BuildNext == BuildUrl

-----------------------------------------------------------------------------
(* Incremental polling: the state key of one job, written through the
   scheduler's PollingStateService (the exported singleton) and read
   through the PollingStateService the generic behavior constructs for
   itself. Each instance holds a Redis client of its own; the commands of a
   client that has not been connected are rejected. *)

\* the pages of one cycle explored
MaxIncPages == 2

IncConfig == DataExtraction(Path(<<Child("items")>>), PagePagination)

\* the commands that throw on this client
ClientFaults(open) ==
    IF open THEN {} ELSE {"hGetAll", "hSet", "hDel", "expire"}

NoSuccess == 0 - 1

IncIdle ==
    /\ inEntry = AbsentEntry
    /\ inOpen = [scheduler |-> FALSE, behavior |-> FALSE]
    /\ inPc = "idle"
    /\ inCycles = 0
    /\ inParams = NoParams
    /\ inRequests = <<>>
    /\ inTimes = <<>>
    /\ inSuccess = NoSuccess
    /\ inNow = 1

incothers ==
    <<kvars, psvars, rlvars, svars, bvars, lvars, shlvars, shsvars, cyvars, buvars,
     dcvars, gtvars, dxvars>>

\* start(): `await pollingStateService.connect()` on the singleton
IncConnect ==
    /\ ~inOpen.scheduler
    /\ inOpen' = [inOpen EXCEPT !.scheduler = TRUE]
    /\ UNCHANGED <<inEntry, inPc, inCycles, inParams, inRequests, inTimes, inSuccess, inNow>>
    /\ UNCHANGED incothers

\* executePoll reaches DefaultPollingBehavior.poll:
\* getInitialPaginationParams
IncPoll ==
    /\ inOpen.scheduler
    /\ inPc = "idle"
    /\ inCycles < MaxCycles
    /\ inCycles' = inCycles + 1
    /\ inParams' = getInitialPaginationParams(IncConfig)
    /\ inRequests' = <<>>
    /\ inTimes' = <<>>
    /\ inPc' = "state"
    /\ UNCHANGED <<inEntry, inOpen, inSuccess, inNow>>
    /\ UNCHANGED incothers

\* poll: `await this.pollingStateService.getPollingState(...)` on the
\* behavior's own instance, then addIncrementalParams
IncState ==
    /\ inPc = "state"
    /\ LET pollingState == getPollingState(inEntry, ClientFaults(inOpen.behavior))
       IN  inParams' = addIncrementalParams(inParams,
                                            pollingState.lastSuccessfulPoll,
                                            IncConfig)
    /\ inPc' = "page"
    /\ UNCHANGED <<inEntry, inOpen, inCycles, inRequests, inTimes, inSuccess, inNow>>
    /\ UNCHANGED incothers

\* poll: one iteration of the loop; a request or an extraction that throws
\* leaves poll
IncPage ==
    /\ inPc = "page"
    /\ Len(inRequests) < MaxIncPages
    /\ inRequests' = Append(inRequests, inParams)
    /\ inTimes' = Append(inTimes, inNow)
    /\ \E answer \in FetchAnswers(IncConfig, inParams) :
          LET extractedData == extractData(answer.data, IncConfig.data_extraction)
          IN  IF ~answer.ok \/ extractedData.threw
              THEN /\ inPc' = "failure"
                   /\ UNCHANGED inParams
              ELSE IF hasNextPage(answer.data, IncConfig)
                      /\ Len(inRequests) + 1 < MaxIncPages
              THEN /\ inParams' = Spread(inParams,
                                         getNextPageParams(answer.data, IncConfig,
                                                           inParams))
                   /\ UNCHANGED inPc
              ELSE /\ inPc' = "success"
                   /\ UNCHANGED inParams
    /\ UNCHANGED <<inEntry, inOpen, inCycles, inSuccess, inNow>>
    /\ UNCHANGED incothers

\* executePoll: `await pollingStateService.updateSuccessfulPoll(...)` on the
\* singleton, at time inNow
IncSuccess ==
    /\ inPc = "success"
    /\ inEntry' = updateSuccessfulPoll(inEntry, toISOString(inNow),
                                       ClientFaults(inOpen.scheduler))
    /\ inSuccess' = inNow
    /\ inPc' = "idle"
    /\ UNCHANGED <<inOpen, inCycles, inParams, inRequests, inTimes, inNow>>
    /\ UNCHANGED incothers

\* executePoll's catch: `await pollingStateService.updateFailedPoll(...)` on
\* the singleton
IncFailure ==
    /\ inPc = "failure"
    /\ \E error \in ErrorMessages :
          inEntry' = updateFailedPoll(inEntry, error, DEFAULT_MAX_FAILURES,
                                      toISOString(inNow),
                                      ClientFaults(inOpen.scheduler)).entry
    /\ inPc' = "idle"
    /\ UNCHANGED <<inOpen, inCycles, inParams, inRequests, inTimes, inSuccess, inNow>>
    /\ UNCHANGED incothers

\* time passes, between the cycles and while a cycle awaits
IncTick ==
    /\ inNow < MaxNow + 1
    /\ inNow' = inNow + 1
    /\ UNCHANGED <<inEntry, inOpen, inPc, inCycles, inParams, inRequests, inTimes, inSuccess>>
    /\ UNCHANGED incothers

IncrementalNext ==
    \/ IncConnect
    \/ IncPoll
    \/ IncState
    \/ IncPage
    \/ IncSuccess
    \/ IncFailure
    \/ IncTick

-----------------------------------------------------------------------------
(* DiscoursePollingBehavior.poll of several jobs through the one instance
   the registry holds: `this.discourseClient` is a field of the instance,
   assigned at the start of every poll and read after the first await *)

\* two Discourse configurations of different instances
DiscourseJobs ==
    { [tenant_id |-> "t1", instance_url |-> "https://a.io", api_key_value |-> "ka"],
      [tenant_id |-> "t2", instance_url |-> "https://b.io", api_key_value |-> "kb"] }

\* the polls explored
MaxPolls == 3

NoClient == [undefined |-> TRUE]

\* new DiscourseClient(config)
DiscourseClient(config) ==
    [baseUrl |-> config.instance_url, apiKey |-> config.api_key_value]

NoPoll == [pc |-> "idle", client |-> NoClient]

DiscourseSharedIdle ==
    /\ discourseClient = NoClient
    /\ dcPolls = [j \in DiscourseJobs |-> NoPoll]
    /\ dcCycles = 0
    /\ dcRequests = {}
    /\ dcPublished = {}

dcothers ==
    <<kvars, psvars, rlvars, svars, bvars, lvars, shlvars, shsvars, cyvars, buvars,
     invars,
     gtvars, dxvars>>

\* poll(context) up to its first await:
\* `this.discourseClient = new DiscourseClient(config)`
SharedPoll(j) ==
    /\ dcPolls[j].pc = "idle"
    /\ dcCycles < MaxPolls
    /\ dcCycles' = dcCycles + 1
    /\ discourseClient' = DiscourseClient(j)
    /\ dcPolls' = [dcPolls EXCEPT ![j].pc = "state"]
    /\ UNCHANGED <<dcRequests, dcPublished>>
    /\ UNCHANGED dcothers

\* getPollingState resolves; `this.discourseClient.fetchPostsWithDetails(...)`
\* is called on the client the field holds now, and the client sends its
\* first request
SharedFetch(j) ==
    /\ dcPolls[j].pc = "state"
    /\ dcPolls' = [dcPolls EXCEPT ![j] = [pc |-> "fetch", client |-> discourseClient]]
    /\ dcRequests' = dcRequests \cup {[job    |-> j,
                                       url    |-> discourseClient.baseUrl,
                                       apiKey |-> discourseClient.apiKey]}
    /\ UNCHANGED <<discourseClient, dcCycles, dcPublished>>
    /\ UNCHANGED dcothers

\* fetchPostsWithDetails returns the posts of the instance its client
\* addressed, or throws; pollWithBehavior publishes what was returned under
\* context.config
SharedPublish(j) ==
    /\ dcPolls[j].pc = "fetch"
    /\ \E ok \in BOOLEAN :
          dcPublished' = IF ok
                         THEN dcPublished \cup
                                 {[tenant_id    |-> j.tenant_id,
                                   instance_url |-> j.instance_url,
                                   raw_data     |-> dcPolls[j].client.baseUrl]}
                         ELSE dcPublished
    /\ dcPolls' = [dcPolls EXCEPT ![j] = NoPoll]
    /\ UNCHANGED <<discourseClient, dcCycles, dcRequests>>
    /\ UNCHANGED dcothers

DiscourseSharedNext ==
    \/ \E j \in DiscourseJobs : SharedPoll(j)
    \/ \E j \in DiscourseJobs : SharedFetch(j)
    \/ \E j \in DiscourseJobs : SharedPublish(j)

-----------------------------------------------------------------------------
(* SpecGate: the rate-limit checks of executePoll on the job's two keys *)

\* the clock advances by half a per-minute window at a time
GateStep == 30 * 1000

\* the clock steps explored
MaxGateTicks == 4

GateStart == 3600 * 1000

NoGate == [none |-> TRUE]

GateIdle ==
    /\ gtPc = "idle"
    /\ gtMinute = EmptyWindow
    /\ gtHour = EmptyWindow
    /\ gtNow = GateStart
    /\ gtLast = NoGate

gtothers ==
    <<kvars, psvars, rlvars, svars, bvars, lvars, shlvars, shsvars, cyvars, buvars,
     invars, dcvars,
     dxvars>>

\* executePoll: rateLimiter.isAllowed(rateLimitKey + ':minute', 60,
\* requests_per_minute) resolves
GateMinute ==
    /\ gtPc = "idle"
    /\ \E faults \in RlFaults :
          LET r == isAllowed(gtMinute, gtNow, 60, RequestsPerMinute, faults)
          IN  /\ gtMinute' = r.win
              /\ gtLast' = [pc            |-> "hour",
                            minuteAllowed |-> r.allowed,
                            minuteThrew   |-> r.threw,
                            minuteBefore  |-> zRemRangeByScore(gtMinute.z, 0,
                                                               gtNow - 60 * 1000)]
    /\ gtPc' = "hour"
    /\ UNCHANGED <<gtHour, gtNow>>
    /\ UNCHANGED gtothers

\* executePoll: rateLimiter.isAllowed(rateLimitKey + ':hour', 3600,
\* requests_per_hour) resolves, and the cycle is skipped or goes on
GateHour ==
    /\ gtPc = "hour"
    /\ \E faults \in RlFaults :
          LET r == isAllowed(gtHour, gtNow, 3600, RequestsPerHour, faults)
          IN  /\ gtHour' = r.win
              /\ gtLast' = [pc            |-> "done",
                            minuteAllowed |-> gtLast.minuteAllowed,
                            minuteThrew   |-> gtLast.minuteThrew,
                            minuteBefore  |-> gtLast.minuteBefore,
                            hourAllowed   |-> r.allowed,
                            hourThrew     |-> r.threw,
                            skipped       |-> ~gtLast.minuteAllowed \/ ~r.allowed]
    /\ gtPc' = "idle"
    /\ UNCHANGED <<gtMinute, gtNow>>
    /\ UNCHANGED gtothers

\* time passes
GateAdvance ==
    /\ gtNow < GateStart + MaxGateTicks * GateStep
    /\ gtNow' = gtNow + GateStep
    /\ UNCHANGED <<gtPc, gtMinute, gtHour, gtLast>>
    /\ UNCHANGED gtothers

GateNext == GateMinute \/ GateHour \/ GateAdvance

(* C35 *)

\* the last cycle was skipped with the per-minute check allowing and the
\* per-hour check denying, neither call having thrown
C35_SkippedByHour ==
    /\ gtLast # NoGate
    /\ gtLast.pc = "done"
    /\ gtLast.minuteAllowed /\ ~gtLast.minuteThrew
    /\ ~gtLast.hourAllowed

\* C35: a cycle the per-hour check denies after the per-minute check
\* allowed leaves no entry of its own in the per-minute window: the
\* window holds what it held, expired entries pruned, before the cycle.
C35_SkipConsumesNothing ==
    (gtPc = "idle" /\ C35_SkippedByHour) => gtMinute.z = gtLast.minuteBefore

-----------------------------------------------------------------------------
(* SpecDiscourseCycle: the cycle of SpecDiscourse inside executePoll, which
   sends the records poll returned and records the outcome on the job's
   state key *)

\* the state key before the cycle: never written, or written by a
\* successful cycle and a failed one after it
DiscourseStates ==
    { AbsentEntry,
      updateFailedPoll(updateSuccessfulPoll(AbsentEntry, toISOString(1000), {}),
                       <<"e","1">>, DEFAULT_MAX_FAILURES, toISOString(2000),
                       {}).entry }

NoOutcome == [call |-> "none", faults |-> {}]

\* the search pages on which the source has posts, at most
MaxPostPages == 2

DxIdle ==
    /\ dxPc = "idle"
    /\ dxEntry = AbsentEntry
    /\ dxPrior = AbsentEntry
    /\ dxSent = <<>>
    /\ dxLast = NoOutcome

\* executePoll has called pollWithBehavior
DxInit ==
    /\ dxPc = "poll"
    /\ dxEntry \in DiscourseStates
    /\ dxPrior = dxEntry
    /\ dxSent = <<>>
    /\ dxLast = NoOutcome

dxothers ==
    <<kvars, psvars, rlvars, svars, bvars, lvars, shlvars, shsvars, cyvars, buvars,
     invars, dcvars, gtvars>>

\* pollWithBehavior: publishToKafka of the next record of the result; a
\* send that throws leaves pollWithBehavior
DxPublish ==
    /\ dxPc = "poll"
    /\ dPc = "done"
    /\ Len(dxSent) < Len(dResult.records)
    /\ \E ok \in BOOLEAN :
          IF ok THEN /\ dxSent' = Append(dxSent, dResult.records[Len(dxSent) + 1])
                     /\ UNCHANGED dxPc
          ELSE /\ dxPc' = "failure"
               /\ UNCHANGED dxSent
    /\ UNCHANGED <<dxEntry, dxPrior, dxLast>>
    /\ UNCHANGED dxothers

\* executePoll: pollWithBehavior has resolved, updateSuccessfulPoll
DxSuccess ==
    /\ dxPc = "poll"
    /\ dPc = "done"
    /\ Len(dxSent) = Len(dResult.records)
    /\ \E faults \in SuccessFaults :
          /\ dxEntry' = updateSuccessfulPoll(dxEntry, toISOString(SchedNow), faults)
          /\ dxLast' = [call |-> "success", faults |-> faults]
    /\ dxPc' = "recorded"
    /\ UNCHANGED <<dxPrior, dxSent>>
    /\ UNCHANGED dxothers

\* executePoll's catch: poll or a send has thrown, updateFailedPoll
DxFailure ==
    /\ \/ dxPc = "poll" /\ dPc = "failed"
       \/ dxPc = "failure"
    /\ \E error \in ErrorMessages, faults \in FailFaults :
          /\ dxEntry' = updateFailedPoll(dxEntry, error, DEFAULT_MAX_FAILURES,
                                         toISOString(SchedNow), faults).entry
          /\ dxLast' = [call |-> "failure", faults |-> faults]
    /\ dxPc' = "recorded"
    /\ UNCHANGED <<dxPrior, dxSent>>
    /\ UNCHANGED dxothers

\* searchPostsInTimeRange of the page on a source that answers the
\* searches past its last page with no posts, or rejects them
DxSearch ==
    /\ DcSearch
    /\ dPage > MaxPostPages => dPc' # "details"

DiscourseCycleNext ==
    \/ DcPoll
    \/ DxSearch
    \/ DcDetail
    \/ DcNextPage
    \/ DcReturn
    \/ DxPublish
    \/ DxSuccess
    \/ DxFailure

\* the remaining components at rest
OthersIdle == LifeIdle /\ SharedIdle /\ CycleIdle /\ BuildIdle /\ IncIdle /\ DiscourseSharedIdle /\ GateIdle /\ DxIdle

-----------------------------------------------------------------------------
(* Specifications *)

\* no pair of configurations drawn
KeysIdle ==
    /\ kcfgs = <<>>
    /\ kkeys = NoKeys

\* no polling behavior at work
BehaviorsIdle ==
    /\ FetchIdle /\ ExtractIdle /\ DiscourseIdle /\ RegistryInit
    /\ OthersIdle

\* variables of the other specifications keep their initial values
Init == SchedInit /\ KeysIdle /\ StateInit /\ RLInit /\ BehaviorsIdle

InitKeys == SchedInit /\ KeysInit /\ StateInit /\ RLInit /\ BehaviorsIdle

InitExtract ==
    /\ SchedInit /\ KeysIdle /\ StateInit /\ RLInit
    /\ FetchIdle /\ ExtractInit /\ DiscourseIdle /\ RegistryInit
    /\ OthersIdle

InitFetch ==
    /\ SchedInit /\ KeysIdle /\ StateInit /\ RLInit
    /\ FetchInit /\ ExtractIdle /\ DiscourseIdle /\ RegistryInit
    /\ OthersIdle

InitDiscourse ==
    /\ SchedInit /\ KeysIdle /\ StateInit /\ RLInit
    /\ FetchIdle /\ ExtractIdle /\ DiscourseInit /\ RegistryInit
    /\ OthersIdle

KeysNext == DeriveKeys

InitTwo == SchedInitTwo /\ KeysIdle /\ StateInit /\ RLInit /\ BehaviorsIdle

\* the scheduler with one configuration
Spec == Init /\ [][SchedNext]_vars

\* reconciliation of one configuration whose document is edited in any field
ReloadNext ==
    \/ Start
    \/ EditDocument
    \/ Reconcile(FALSE)
    \/ ReconcileFails

SpecReload == Init /\ [][ReloadNext]_vars

\* the scheduler with one configuration and a failing state store
SpecFaults == Init /\ [][FaultsNext]_vars

\* the scheduler with two configurations whose cycles and backends fail
SpecErrors == InitTwo /\ [][ErrorsNext]_vars

\* the scheduler with two configurations of one tenant and source type
SpecTwo == InitTwo /\ [][TwoNext]_vars

\* extractData on one response
SpecExtract == InitExtract /\ [][ExtractNext]_vars

\* one generic cycle
SpecFetch == InitFetch /\ [][FetchNext]_vars

\* one cycle of the Discourse behavior
SpecDiscourse == InitDiscourse /\ [][DiscourseNext]_vars

\* the registry of polling behaviors
SpecRegistry == Init /\ [][RegistryNext]_vars

\* the service from start() to stop()
SpecStop == Init /\ [][StopNext]_vars

\* one rate-limit key with concurrent callers
SpecLimiterShared == Init /\ [][LimiterSharedNext]_vars

\* one state key with concurrent callers
SpecStateShared == Init /\ [][StateSharedNext]_vars

\* the cycles of one job
SpecCycle == Init /\ [][CycleNext]_vars

InitBuild ==
    /\ SchedInit /\ KeysIdle /\ StateInit /\ RLInit
    /\ FetchIdle /\ ExtractIdle /\ DiscourseIdle /\ RegistryInit
    /\ LifeIdle /\ SharedIdle /\ CycleIdle /\ BuildInit /\ IncIdle /\ DiscourseSharedIdle /\ GateIdle /\ DxIdle

\* calls of buildUrl
SpecBuild == InitBuild /\ [][BuildNext]_vars

\* the cycles of one job with the generic behavior
SpecIncremental == Init /\ [][IncrementalNext]_vars

\* the polls of two Discourse jobs through one behavior instance
SpecDiscourseShared == Init /\ [][DiscourseSharedNext]_vars

InitOutage ==
    SchedInitAnyThreshold /\ KeysIdle /\ StateInit /\ RLInit /\ BehaviorsIdle

\* a deployment whose state store may fail, with any failure threshold
SpecOutage == InitOutage /\ [][FaultsNext]_vars

\* the cycles of one job passing the two rate-limit checks
SpecGate == Init /\ [][GateNext]_vars

InitPaging ==
    /\ SchedInit /\ KeysIdle /\ StateInit /\ RLInit
    /\ FetchInitOf(PagingConfigs) /\ ExtractIdle /\ DiscourseIdle /\ RegistryInit
    /\ OthersIdle

\* one generic cycle under any pagination descriptor of the schema
SpecPaging == InitPaging /\ [][FetchNext]_vars

InitDiscourseCycle ==
    /\ SchedInit /\ KeysIdle /\ StateInit /\ RLInit
    /\ FetchIdle /\ ExtractIdle /\ DiscourseInit /\ RegistryInit
    /\ LifeIdle /\ SharedIdle /\ CycleIdle /\ BuildIdle /\ IncIdle
    /\ DiscourseSharedIdle /\ GateIdle /\ DxInit

\* one Discourse cycle and the record executePoll keeps of it
SpecDiscourseCycle == InitDiscourseCycle /\ [][DiscourseCycleNext]_vars

InitLive == SchedInitLive /\ KeysIdle /\ StateInit /\ RLInit /\ BehaviorsIdle

\* the steps of a running service whose configuration is not edited
LiveNext ==
    \/ Start
    \/ Reconcile(FALSE)
    \/ ReconcileFails
    \/ TimerFire
    \/ ExecStep(TRUE, FALSE, TRUE, {FALSE})

\* a running service with one job: start() completes, the check interval
\* keeps loading the configurations, a timer that is armed fires, and what
\* an execution awaits resolves or rejects
SpecLive ==
    /\ InitLive
    /\ [][LiveNext]_vars
    /\ WF_vars(Start)
    /\ WF_vars(Reconcile(FALSE))
    /\ WF_vars(TimerFire)
    /\ WF_vars(ExecStep(TRUE, FALSE, TRUE, {FALSE}))

\* key derivation for a pair of configurations
SpecKeys == InitKeys /\ [][KeysNext]_vars

\* sequential state-store calls on one key
SpecState == Init /\ [][StateNext]_vars

\* sequential rate-limiter calls on one key
SpecRL == Init /\ [][RLNext]_vars

-----------------------------------------------------------------------------
(* Properties *)

\* C1: for every job key, at most one poll execution (the body of
\* executePoll between setting and clearing the in-flight flag) is in
\* progress at any time.
C1_AtMostOneExecution ==
    \A k \in JobKeys : ExecCount(Sched, k) <= 1

\* C2: in every reachable state at most one armed timer exists per job key.
C2_AtMostOneArmedTimer ==
    \A k \in JobKeys : ArmedTimers(Sched, k) <= 1

\* C3: no job key whose persisted consecutiveFailures is greater than or
\* equal to its max_failures_before_disable has a PollingJob with an armed
\* timer.
C3_DisabledNotScheduled ==
    \A k \in JobKeys :
        shouldDisablePolling(store[StateKeyOfJob(k)], MaxFailuresBeforeDisable, {})
            => ~TimerPending(Sched, k)

\* C4: from the failed cycle that brought a job to its threshold until a
\* resetFailureCount, no execution of the job key starts and no
\* reconciliation creates a PollingJob for it.
C4_OpenNotScheduled ==
    [][\A k \in JobKeys :
          (breaker[k] = "open" /\ breaker'[k] = "open")
              => /\ ExecCount(Sched, k)' <= ExecCount(Sched, k)
                 /\ (jobs[k] = NoJob => jobs'[k] = NoJob)]_vars

\* C5: after resetFailureCount is applied to a disabled job whose
\* configuration is still enabled, the next reconciliation that reads the
\* configurations leaves the job key with a PollingJob whose timer is armed.
C5_ResetReschedules ==
    [][\A k \in JobKeys :
          (/\ breaker[k] = "reset"
           /\ breaker'[k] = "closed"
           /\ jobs[k] = NoJob
           /\ dbConfigs[ConfigOfKey(k)].enabled)
              => (jobs'[k] # NoJob /\ jobs'[k].timeoutId = "armed")]_vars

\* C6: two configurations with the same tenant_id and source_type and
\* different instance_url have different state keys and different
\* rate-limit keys.
C6_KeysIndependent ==
    kkeys # NoKeys =>
        ((/\ kcfgs[1].tenant_id = kcfgs[2].tenant_id
          /\ kcfgs[1].source_type = kcfgs[2].source_type
          /\ kcfgs[1].instance_url # kcfgs[2].instance_url)
            => /\ kkeys[1].state # kkeys[2].state
               /\ kkeys[1].minute # kkeys[2].minute
               /\ kkeys[1].hour # kkeys[2].hour)

\* C7: of sequential calls isAllowed(key, W, N) with a working backend, a
\* call is allowed exactly when fewer than N allowed calls lie within the W
\* seconds before it, whatever the call times (equal timestamps included).
C7_ExactlyN ==
    ~rlFaulty =>
        \A i \in 1..Len(rlLog) :
            rlLog[i].allowed <=>
                Cardinality({j \in 1..(i - 1) :
                                /\ rlLog[j].allowed
                                /\ rlLog[j].t > rlLog[i].t - RlWindowSeconds * 1000})
                    < RlMaxRequests

\* C8: a rate-limit check in which a backend command fails returns true,
\* and a cycle whose two checks both fail this way goes on to
\* updateLastPollAttempt and the fetch, with the stored state untouched by
\* the rate-limit stage.
C8_FailOpen ==
    [][lastCheck' # NoCheck =>
          /\ (lastCheck'.minuteThrew => lastCheck'.minuteAllowed)
          /\ (lastCheck'.hourThrew => lastCheck'.hourAllowed)
          /\ (lastCheck'.minuteThrew /\ lastCheck'.hourThrew)
                => /\ execs' = SetExec(lastCheck'.exec,
                                       [lastCheck'.exec EXCEPT !.pc = "attempt"])
                   /\ store' = store
                   /\ breaker' = breaker]_vars

\* C8 witness: both checks of a cycle ended in the catch block and the
\* cycle is about to call updateLastPollAttempt
C8_Witness ==
    /\ lastCheck # NoCheck
    /\ lastCheck.minuteThrew
    /\ lastCheck.hourThrew
    /\ [lastCheck.exec EXCEPT !.pc = "attempt"] \in BagToSet(execs)

\* C9: when the per-minute or the per-hour check denies a cycle, the cycle
\* ends in that step: the stored state and the topic are unchanged, the
\* in-flight flag of the PollingJob the cycle holds is cleared and the timer
\* of the job key is armed again.
C9_DenialSkips ==
    [][(lastCheck' # NoCheck
        /\ ~(lastCheck'.minuteAllowed /\ lastCheck'.hourAllowed))
          => LET e == lastCheck'.exec
                 k == e.jobKey
             IN  /\ store' = store
                 /\ published' = published
                 /\ breaker' = breaker
                 /\ execs' = execs (-) SetToBag({e})
                 /\ (e.own => ~jobs'[k].isRunning)
                 /\ ((jobs[k] # NoJob /\ isRunning)
                       => jobs'[k].timeoutId = "armed")]_vars

\* C9 witness: a cycle has just been denied by the per-hour check alone and
\* its job waits for the next timer
C9_Witness ==
    /\ lastCheck # NoCheck
    /\ lastCheck.minuteAllowed
    /\ ~lastCheck.hourAllowed
    /\ lastCheck.exec.own
    /\ jobs[lastCheck.exec.jobKey].timeoutId = "armed"
    /\ ~jobs[lastCheck.exec.jobKey].isRunning

\* C10: with a working backend, k consecutive updateFailedPoll calls from
\* an absent key or a success leave consecutiveFailures = k with the error
\* stored, and an updateSuccessfulPoll after them leaves consecutiveFailures
\* "0", no lastError, no lastErrorTimestamp and lastSuccessfulPoll set.
C10_CountAndReset ==
    ~psFaulty =>
        LET state == getPollingState(psEntry, {})
        IN  /\ psLast = "fail" =>
                  /\ state.consecutiveFailures = psCalls
                  /\ state.lastError \in ErrorMessages
                  /\ state.lastErrorTimestamp # Undefined
            /\ psLast = "success" =>
                  /\ Field(psEntry.h, "consecutiveFailures") = <<"0">>
                  /\ state.consecutiveFailures = 0
                  /\ "lastError" \notin DOMAIN psEntry.h
                  /\ "lastErrorTimestamp" \notin DOMAIN psEntry.h
                  /\ state.lastSuccessfulPoll # Undefined

\* C10 witness: a success recorded after ten or more consecutive failures
C10_Witness ==
    /\ ~psFaulty
    /\ psLast = "success"
    /\ psCalls >= 10

\* C11: a reconciliation whose read of the configurations fails changes
\* nothing: the job handles with their configuration snapshots, the armed
\* timers and the executions in flight are the same after it as before, and
\* the service is still running, so that the periodic reconciliation goes on.
C11_FailedLoadChangesNothing ==
    [][lastLoad'.kind = "failed" =>
          /\ jobs' = jobs
          /\ leaked' = leaked
          /\ execs' = execs
          /\ isRunning' /\ isRunning]_vars

\* a failed read while a job is armed
C11_Witness ==
    /\ lastLoad.kind = "failed"
    /\ \E k \in JobKeys : TimerPending(Sched, k)

\* C12: right after a reconciliation that read the configurations, the job
\* keys that have a job handle are exactly the keys of the enabled
\* configurations whose stored failure count is below the threshold.
C12_HandlesMatchEnabled ==
    [][lastLoad'.kind = "loaded" =>
          {k \in DOMAIN jobs' : jobs'[k] # NoJob}
          = {JobKeyOf[c] : c \in
               {d \in DOMAIN dbConfigs :
                  /\ dbConfigs[d].enabled
                  /\ getPollingState(store[StateKeyTable[d]], {}).consecutiveFailures
                        < MaxFailuresBeforeDisable}}]_vars

\* a reconciliation that leaves an enabled configuration without a handle,
\* its failure count having reached the threshold
C12_Witness ==
    /\ lastLoad.kind = "loaded"
    /\ \E c \in DOMAIN dbConfigs :
          /\ dbConfigs[c].enabled
          /\ jobs[JobKeyOf[c]] = NoJob
          /\ getPollingState(store[StateKeyTable[c]], {}).consecutiveFailures
                >= MaxFailuresBeforeDisable

\* the job key of configuration c had a handle and its failure count was
\* below the threshold when a reconciliation that has just run read c
C13_Reconciled(c) ==
    /\ lastLoad'.kind = "loaded"
    /\ dbConfigs[c].enabled
    /\ jobs[JobKeyOf[c]] # NoJob
    /\ getPollingState(store[StateKeyTable[c]], {}).consecutiveFailures
          < MaxFailuresBeforeDisable

\* the configuration read differs from the cached one in the interval, the
\* endpoint, the query parameters or the extraction description
C13_Differs(old, new) ==
    \/ old.interval_seconds # new.interval_seconds
    \/ old.endpoint # new.endpoint
    \/ old.query_params # new.query_params
    \/ old.data_extraction # new.data_extraction

\* C13: when a reconciliation reads, for a running job, a configuration that
\* differs from the handle's cached one in interval, endpoint, query
\* parameters or extraction description, the old handle's timer is cancelled
\* and the handle replaced by a new one that holds the new configuration, is
\* not in flight and is armed with the new interval; when none of these
\* fields differ, the handle and its timer are left untouched.
C13_RestartOnChange ==
    [][\A c \in DOMAIN dbConfigs :
          C13_Reconciled(c) =>
             LET k == JobKeyOf[c]
             IN  IF C13_Differs(jobs[k].config, dbConfigs[c])
                 THEN /\ jobs'[k] = [config     |-> dbConfigs[c],
                                      isRunning  |-> FALSE,
                                      timeoutId  |-> "armed",
                                      intervalMs |-> dbConfigs[c].interval_seconds * 1000]
                      /\ leaked'[k] = leaked[k]
                 ELSE /\ jobs'[k] = jobs[k]
                      /\ leaked'[k] = leaked[k]]_vars

\* a reconciliation has replaced a handle whose cached configuration had the
\* interval and the endpoint of the one read, and the new handle is armed
C13_Witness ==
    /\ lastLoad.kind = "loaded"
    /\ \E c \in DOMAIN dbConfigs :
          /\ JobKeyOf[c] \in lastLoad.restarted
          /\ TimerPending(Sched, JobKeyOf[c])
          /\ jobs[JobKeyOf[c]].config.query_params # NoObject
          /\ jobs[JobKeyOf[c]].config.interval_seconds = MIN_INTERVAL
          /\ jobs[JobKeyOf[c]].config.endpoint = <<"/","p">>

\* an execution of job key k leaves executePoll in this step
C14_Ended(k) == ExecCount(Sched, k)' < ExecCount(Sched, k)

\* C14: whatever fails inside a poll cycle (rate limiter, state store,
\* request, extraction, publishing), the execution ends with the in-flight
\* flag of its handle cleared and with control back in the timer callback,
\* which re-arms the handle's timer; the service keeps running and the
\* handles and timers of the other job keys are the same as before.
C14_FailureContained ==
    [][\A k \in JobKeys :
          C14_Ended(k) =>
             /\ isRunning' /\ isRunning
             /\ (jobs'[k] # NoJob
                   /\ ~\E x \in BagToSet(execs') : x.jobKey = k /\ x.own)
                      => ~jobs'[k].isRunning
             /\ jobs'[k] # NoJob => jobs'[k].timeoutId = "armed"
             /\ \A other \in JobKeys \ {k} :
                   jobs'[other] = jobs[other] /\ leaked'[other] = leaked[other]]_vars

\* a cycle has failed and its error is stored, but the state store failed
\* under updateFailedPoll, which returned false: the job is armed again,
\* and the other job is armed
C14_Witness ==
    \E k \in JobKeys, other \in JobKeys :
        /\ other # k
        /\ ExecCount(Sched, k) = 0
        /\ TimerPending(Sched, k) /\ ~jobs[k].isRunning
        /\ TimerPending(Sched, other)
        /\ "lastError" \in DOMAIN store[StateKeyOfJob(k)].h

\* the execution of job key k that ends in this step is one whose cycle
\* failed after the rate-limit checks
C15_FailedCycleEnds(k) ==
    /\ ExecCount(Sched, k)' < ExecCount(Sched, k)
    /\ \E e \in BagToSet(execs) :
          /\ e.jobKey = k
          /\ e.pc = "failure"
          /\ CopiesIn(e, execs') < CopiesIn(e, execs)

C16_PageCap ==
    /\ Len(fRequests) <= 10
    /\ fResult # NoResult =>
          /\ fResult.pagesProcessed <= 10
          /\ fResult.pagesProcessed = Len(fRequests)
          /\ fResult.hasMoreData =>
                /\ Len(fRequests) = 10
                /\ hasNextPage(fAnswers[Len(fAnswers)].data, fConfig)

\* a cycle has returned after 10 pages from a source that still reported a
\* next page
C16_Witness ==
    /\ fResult # NoResult
    /\ fResult.hasMoreData
    /\ fResult.pagesProcessed = 10
    /\ fResult.totalRecords = 10

\* the request of the answer failed, or extractData threw on its body
C17_PageFailed(answer) ==
    ~answer.ok \/ extractData(answer.data, fConfig.data_extraction).threw

\* C17: in a generic cycle, when the request or the extraction of a page
\* fails the cycle is aborted: no further page is requested, poll returns
\* nothing and no record of the earlier pages is sent; records are sent
\* only after poll has returned, and they are records poll returned.
C17_NoPartialPublish ==
    /\ \A i \in 1..Len(fAnswers) :
          C17_PageFailed(fAnswers[i]) =>
             /\ i = Len(fAnswers)
             /\ fPc = "failed"
             /\ fResult = NoResult
             /\ fSent = <<>>
    /\ fSent # <<>> =>
          /\ fResult # NoResult
          /\ Len(fSent) <= Len(fResult.records)
          /\ fSent = SubSeq(fResult.records, 1, Len(fSent))

\* a cycle has failed on the request of a page after earlier pages had
\* delivered records
C17_Witness ==
    /\ fPc = "failed"
    /\ Len(fAnswers) > 1
    /\ ~fAnswers[Len(fAnswers)].ok
    /\ allRecords # <<>>
    /\ fSent = <<>>

-----------------------------------------------------------------------------
(* C18 *)

RECURSIVE C18_SucceededIds(_)
\* the ids of the posts of the topic groups whose details were fetched, in
\* the order of the requests
C18_SucceededIds(answers) ==
    IF answers = <<>> THEN <<>>
    ELSE LET n == Len(answers)
             a == answers[n]
             before == C18_SucceededIds(SubSeq(answers, 1, n - 1))
         IN  IF a.kind = "detail" /\ a.outcome = "ok"
             THEN before \o [i \in 1..Len(a.posts) |-> a.posts[i].id]
             ELSE before

\* the search of a page, answered at position i with posts, is followed by
\* one detail request per topic group of the page, whatever the answers to
\* them, and then, below the page limit, by the search of the next page
C18_PageProcessed(i) ==
    LET a == dAnswers[i]
        groups == groupPostsByTopic(a.posts)
        n == Len(groups)
    IN  /\ Len(dAnswers) >= i + n
        /\ \A j \in 1..n :
              /\ dAnswers[i + j].kind = "detail"
              /\ dAnswers[i + j].page = a.page
              /\ dAnswers[i + j].topicId = groups[j].topicId
        /\ IF a.page < DISCOURSE_MAX_PAGES
           THEN /\ Len(dAnswers) > i + n
                /\ dAnswers[i + n + 1].kind = "search"
                /\ dAnswers[i + n + 1].page = a.page + 1
           ELSE Len(dAnswers) = i + n

\* C18: in a cycle of the Discourse behavior a failed detail request of one
\* topic group does not end the cycle: the remaining groups of the page and
\* the remaining search pages are requested all the same, and poll returns
\* the posts of exactly the groups whose details arrived; a failed search
\* request is the last request of its cycle, which ends with an error and
\* returns nothing
C18_DetailSkippedSearchAborts ==
    /\ \A i \in 1..Len(dAnswers) :
          /\ (dAnswers[i].kind = "search" /\ dAnswers[i].outcome = "fail") =>
                /\ i = Len(dAnswers)
                /\ dPc = "failed"
                /\ dResult = NoResult
          /\ (dAnswers[i].kind = "detail" /\ dAnswers[i].outcome = "fail") =>
                \/ dPc # "failed"
                \/ /\ i < Len(dAnswers)
                   /\ dAnswers[Len(dAnswers)].kind = "search"
    /\ dPc = "failed" =>
          /\ dAnswers # <<>>
          /\ dAnswers[Len(dAnswers)].kind = "search"
          /\ dAnswers[Len(dAnswers)].outcome = "fail"
    /\ dPc \in {"return", "done"} =>
          \A i \in 1..Len(dAnswers) :
             (dAnswers[i].kind = "search" /\ dAnswers[i].posts # <<>>) =>
                C18_PageProcessed(i)
    /\ dResult # NoResult =>
          /\ dPc = "done"
          /\ [r \in 1..Len(dResult.records) |-> dResult.records[r].id]
                = C18_SucceededIds(dAnswers)

\* a cycle has returned the posts of the second group of a page whose first
\* group failed, and has searched the next page after that
C18_Witness ==
    /\ dPc = "done"
    /\ dResult # NoResult
    /\ dResult.records # <<>>
    /\ \E i \in 1..Len(dAnswers) :
          /\ dAnswers[i].kind = "detail"
          /\ dAnswers[i].outcome = "fail"
          /\ i + 2 <= Len(dAnswers)
          /\ dAnswers[i + 1].kind = "detail"
          /\ dAnswers[i + 1].page = dAnswers[i].page
          /\ dAnswers[i + 1].outcome = "ok"
          /\ dAnswers[i + 2].kind = "search"
          /\ \A r \in 1..Len(dResult.records) :
                dResult.records[r].topic_id # dAnswers[i].topicId

-----------------------------------------------------------------------------
(* C19 *)

\* the position of the first registered behavior that can handle the source
\* type, 0 when none can
C19_FirstMatch(sourceType) ==
    IF \E i \in 1..Len(behaviors) : canHandle(behaviors[i], sourceType)
    THEN CHOOSE i \in 1..Len(behaviors) :
            /\ canHandle(behaviors[i], sourceType)
            /\ \A j \in 1..(i - 1) : ~canHandle(behaviors[j], sourceType)
    ELSE 0

\* C19: getBehavior(sourceType) always returns a behavior: the first one in
\* registration order whose canHandle(sourceType) is true, else the default
\* behavior, whose canHandle is true for every source type; with the default
\* registrations DISCOURSE gets the Discourse behavior and every other source
\* type the generic behavior
C19_GetBehaviorTotal ==
    /\ \A sourceType \in LookupSourceTypes : canHandle(defaultBehavior, sourceType)
    /\ lookup.called =>
          /\ lookup.returned \in
                {behaviors[i] : i \in 1..Len(behaviors)} \cup {defaultBehavior}
          /\ canHandle(lookup.returned, lookup.sourceType)
          /\ IF C19_FirstMatch(lookup.sourceType) # 0
             THEN lookup.returned = behaviors[C19_FirstMatch(lookup.sourceType)]
             ELSE lookup.returned = defaultBehavior
          /\ behaviors = DefaultRegistrations =>
                IF lookup.sourceType = "DISCOURSE"
                THEN lookup.returned = DiscoursePollingBehavior(1)
                ELSE lookup.returned = defaultBehavior

\* getBehavior chose the first of two registered behaviors that can both
\* handle the source type
C19_Witness ==
    /\ lookup.called
    /\ \E i, j \in 1..Len(behaviors) :
          /\ i < j
          /\ canHandle(behaviors[i], lookup.sourceType)
          /\ canHandle(behaviors[j], lookup.sourceType)
          /\ behaviors[i] # behaviors[j]
          /\ lookup.returned = behaviors[i]
          /\ \A h \in 1..(i - 1) : ~canHandle(behaviors[h], lookup.sourceType)

-----------------------------------------------------------------------------
(* C20 *)

\* what jsonpath selected in the call of extractData
C20_Query == jsonpathQuery(exIn.data, exIn.path)

\* extractData was called with a response_path and the path selected
\* exactly one match
C20_SingleMatch ==
    /\ exOut # NoOutput
    /\ exIn.path.defined
    /\ ~C20_Query.threw
    /\ Len(C20_Query.results) = 1

\* C20 as stated: when the path selects a single match, extractData returns
\* that match as it is, never a one-element list holding it
C20_SingletonUnwrapped ==
    C20_SingleMatch => exOut.data = C20_Query.results[1]

\* C20: extractData with a response_path returns a list: $.items on
\* {"items":[{"id":1},{"id":2}]} gives the two-element list; a single match
\* that is a list is returned as it is, not as a list holding that list; a
\* single match that is not a list is returned as the one-element list
\* holding it; several matches, or none, are returned as the list of matches
C20_SingletonNormalized ==
    /\ (/\ exOut # NoOutput
        /\ exIn.data = JObj(<< <<"items", JArr(<<Rec(1), Rec(2)>>)>> >>)
        /\ exIn.path = Path(<<Child("items")>>))
          => exOut = [threw |-> FALSE, data |-> JArr(<<Rec(1), Rec(2)>>)]
    /\ (exOut # NoOutput /\ exIn.path.defined) =>
          /\ exOut.threw = C20_Query.threw
          /\ ~exOut.threw => IsArray(exOut.data)
    /\ C20_SingleMatch =>
          exOut.data = IF IsArray(C20_Query.results[1])
                       THEN C20_Query.results[1]
                       ELSE JArr(<<C20_Query.results[1]>>)
    /\ (/\ exOut # NoOutput
        /\ exIn.path.defined
        /\ ~C20_Query.threw
        /\ Len(C20_Query.results) # 1)
          => exOut.data = JArr(C20_Query.results)

\* $.items[0] on {"items":[{"id":1},{"id":2}]} selected the single record
\* {"id":1} and extractData returned the one-element list [{"id":1}]
C20_Witness ==
    /\ exIn.data = JObj(<< <<"items", JArr(<<Rec(1), Rec(2)>>)>> >>)
    /\ exIn.path = Path(<<Child("items"), Index(0)>>)
    /\ C20_SingleMatch
    /\ C20_Query.results[1] = Rec(1)
    /\ exOut = [threw |-> FALSE, data |-> JArr(<<Rec(1)>>)]

-----------------------------------------------------------------------------
(* C21 *)

\* the generic cycle runs under page pagination
C21_PageConfig == fConfig.data_extraction.pagination.type = "page"

\* the records extracted from the i-th answer of the cycle
C21_Extracted(i) == extractData(fAnswers[i].data, fConfig.data_extraction)

\* C21: under page pagination, after a response whose extracted page is not
\* empty getNextPageParams gives the page parameter the current page plus
\* one, which the next request carries ({page: 1} is followed by {page: 2});
\* after a response whose extracted page is empty hasNextPage is false and
\* the cycle makes no further request
C21_PageAdvances ==
    C21_PageConfig =>
       LET page == fConfig.data_extraction.pagination.page_param
       IN  \A i \in 1..Len(fAnswers) :
              (fAnswers[i].ok /\ ~C21_Extracted(i).threw) =>
                 IF Len(C21_Extracted(i).data.a) > 0
                 THEN /\ hasNextPage(fAnswers[i].data, fConfig)
                      /\ getNextPageParams(fAnswers[i].data, fConfig,
                                           fRequests[i])[page]
                            = JNum(fRequests[i][page].n + 1)
                      /\ fRequests[i][page] = JNum(i)
                      /\ i < Len(fRequests) => fRequests[i + 1][page] = JNum(i + 1)
                 ELSE /\ ~hasNextPage(fAnswers[i].data, fConfig)
                      /\ i = Len(fRequests)
                      /\ ~hasMorePages

\* a cycle under page pagination has requested the pages 1, 2 and 3 and
\* ended on the empty third page
C21_Witness ==
    /\ C21_PageConfig
    /\ Len(fRequests) = 3
    /\ fRequests[1]["page"] = JNum(1)
    /\ fRequests[2]["page"] = JNum(2)
    /\ fRequests[3]["page"] = JNum(3)
    /\ fAnswers[3].ok
    /\ ~C21_Extracted(3).threw
    /\ C21_Extracted(3).data.a = <<>>
    /\ fResult # NoResult
    /\ ~fResult.hasMoreData

-----------------------------------------------------------------------------
(* C22 *)

\* the generic cycle runs under cursor pagination with a next-page path and
\* a cursor parameter configured
C22_CursorConfig ==
    /\ fConfig.data_extraction.pagination.type = "cursor"
    /\ fConfig.data_extraction.pagination.next_page_path.defined
    /\ fConfig.data_extraction.pagination.cursor_param # ""

\* what the next-page path selects in the i-th answer of the cycle
C22_Next(i) ==
    jsonpathQuery(fAnswers[i].data,
                  fConfig.data_extraction.pagination.next_page_path)

\* the i-th answer holds a value other than null at the next-page path
C22_HasCursor(i) ==
    /\ ~C22_Next(i).threw
    /\ Len(C22_Next(i).results) > 0
    /\ C22_Next(i).results[1] # JNull

\* C22: under cursor pagination, when the value at the next-page path of a
\* response is null or absent hasNextPage is false and the cycle requests
\* nothing more; when it is a value v other than null hasNextPage is true
\* and the next request of the cycle carries v under the cursor parameter
C22_CursorCarried ==
    C22_CursorConfig =>
       LET cursor == fConfig.data_extraction.pagination.cursor_param
       IN  \A i \in 1..Len(fAnswers) :
              (/\ fAnswers[i].ok
               /\ ~extractData(fAnswers[i].data, fConfig.data_extraction).threw) =>
                 IF C22_HasCursor(i)
                 THEN /\ hasNextPage(fAnswers[i].data, fConfig)
                      /\ i < Len(fRequests) =>
                            /\ cursor \in DOMAIN fRequests[i + 1]
                            /\ fRequests[i + 1][cursor] = C22_Next(i).results[1]
                      /\ i = Len(fRequests) =>
                            /\ hasMorePages
                            /\ cursor \in DOMAIN paginationParams
                            /\ paginationParams[cursor] = C22_Next(i).results[1]
                 ELSE /\ ~hasNextPage(fAnswers[i].data, fConfig)
                      /\ i = Len(fRequests)
                      /\ ~hasMorePages

\* a cycle was answered with the cursors "abc" and 0, requested its second
\* page with cursor = "abc" and its third with cursor = 0, and ended on a
\* response whose cursor is null
C22_Witness ==
    /\ C22_CursorConfig
    /\ Len(fRequests) = 3
    /\ "cursor" \notin DOMAIN fRequests[1]
    /\ C22_Next(1).results = <<JStr(<<"a","b","c">>)>>
    /\ fRequests[2]["cursor"] = JStr(<<"a","b","c">>)
    /\ C22_Next(2).results = <<JNum(0)>>
    /\ fRequests[3]["cursor"] = JNum(0)
    /\ fAnswers[3].ok
    /\ C22_Next(3).results = <<JNull>>
    /\ fResult # NoResult
    /\ ~fResult.hasMoreData

-----------------------------------------------------------------------------
(* C23 *)

\* C23: once stop() has been called no timer of any job is armed, and no
\* step begins a poll execution, whatever was in flight when it was called
C23_QuietAfterStop ==
    /\ [](lifecycle.stopped => \A k \in JobKeys : ArmedTimers(Sched, k) = 0)
    /\ [][lifecycle.stopped =>
             \A k \in JobKeys :
                ExecCount([execs |-> execs'], k) <= ExecCount([execs |-> execs], k)]_vars

-----------------------------------------------------------------------------
(* C24 *)

\* the stored failure count of job key k is below the job's threshold
C24_Below(k) ==
    getPollingState(store[StateKeyOfJob(k)], {}).consecutiveFailures
        < dbConfigs[ConfigOfKey(k)].max_failures_before_disable

\* an execution of job key k ends in this step
C24_ExecutionEnds(k) ==
    ExecCount([execs |-> execs'], k) < ExecCount([execs |-> execs], k)

\* C24: in a running service whose configuration stays enabled and
\* unchanged, the step that ends an execution of the job leaves its timer
\* armed whenever the failure count is still below the threshold, whether
\* the cycle succeeded, failed or was skipped by the rate limiter; and if the
\* failure count stays below the threshold for ever, the job is executed
\* again and again
C24_RearmedForever ==
    /\ [][\A k \in JobKeys :
             (C24_ExecutionEnds(k) /\ C24_Below(k)') =>
                TimerPending([jobs |-> jobs'], k)]_vars
    /\ ([]C24_Below(JobKeyOf[JobA])) => []<>(ExecCount(Sched, JobKeyOf[JobA]) > 0)

\* the job's timer is armed again after a cycle that failed below the
\* threshold
C24_Witness ==
    \E k \in JobKeys :
       /\ getPollingState(store[StateKeyOfJob(k)], {}).consecutiveFailures = 1
       /\ C24_Below(k)
       /\ TimerPending(Sched, k)
       /\ ExecCount(Sched, k) = 0

-----------------------------------------------------------------------------
(* C27 *)

\* this step is a call of isAllowed whose backend commands all succeeded
C27_CallCompletes ==
    /\ Len(rlLog') = Len(rlLog) + 1
    /\ ~rlLog'[Len(rlLog')].threw

\* C27: after a call isAllowed(key, W, N) at time now whose backend commands
\* all succeeded, every timestamp of the key's window is later than
\* now - W, whether the call was allowed or denied.
C27_NoStaleTimestamp ==
    [][C27_CallCompletes =>
          \A e \in rlWin'.z : e.score > rlNow - RlWindowSeconds * 1000]_vars

\* a call has just been denied without backend error, and an earlier
\* admitted call lies a full window or more before it
C27_Witness ==
    /\ Len(rlLog) > 0
    /\ LET last == rlLog[Len(rlLog)]
       IN  /\ last.t = rlNow
           /\ ~last.threw
           /\ ~last.allowed
           /\ \E j \in 1..(Len(rlLog) - 1) :
                 /\ rlLog[j].allowed
                 /\ ~rlLog[j].threw
                 /\ rlLog[j].t <= rlNow - RlWindowSeconds * 1000
           /\ \A e \in rlWin.z : e.score > rlNow - RlWindowSeconds * 1000

-----------------------------------------------------------------------------
(* C25, C26 *)

\* C25: of the isAllowed(key, W, N) calls of concurrent callers on one key,
\* interleaved at the granularity of their backend commands, at most N
\* admitted calls have their timestamps inside any one window of W seconds.
C25_AtMostN ==
    \A i \in 1..Len(shLog) :
        shLog[i].allowed =>
            Cardinality({j \in 1..Len(shLog) :
                            /\ shLog[j].allowed
                            /\ shLog[j].t <= shLog[i].t
                            /\ shLog[j].t > shLog[i].t - RlWindowSeconds * 1000})
                <= RlMaxRequests

\* C26: when k updateFailedPoll calls of concurrent callers on one state
\* key have completed, interleaved at the granularity of their read and
\* write commands, and none is in flight, consecutiveFailures has grown by
\* exactly k.
C26_NoLostIncrement ==
    (\A p \in Callers : shUpdates[p].pc = "idle") =>
        getPollingState(shEntry, {}).consecutiveFailures = shCompleted

-----------------------------------------------------------------------------
(* C28 *)

\* the positions of the cycle's trace that hold operation op
C28_At(op) == {i \in 1..Len(cyTrace) : cyTrace[i].op = op}

\* both rate-limit checks of the cycle returned true
C28_Passed ==
    /\ Len(cyTrace) >= 2
    /\ cyTrace[1].ok
    /\ cyTrace[2].ok

\* C28: the operations of a cycle are called in the order minute check,
\* hour check, attempt write, fetch, one publish per returned record in the
\* order of the records, state update; updateSuccessfulPoll is called only
\* after the fetch returned and every returned record was published; and a
\* finished cycle that passed both checks has called exactly one of
\* updateSuccessfulPoll and updateFailedPoll (a cycle that did not pass has
\* called neither).
C28_CycleOrder ==
    /\ \A i \in 1..Len(cyTrace) :
          /\ i = 1 => cyTrace[i].op = "minute"
          /\ i = 2 => cyTrace[i].op = "hour"
          /\ i = 3 => cyTrace[i].op = "attempt"
          /\ i = 4 => cyTrace[i].op = "fetch"
          /\ i > 4 => cyTrace[i].op \in {"publish", "success", "failure"}
          /\ cyTrace[i].op = "publish" =>
                /\ i - 4 <= Len(cyRecords)
                /\ cyTrace[i].record = cyRecords[i - 4]
          /\ cyTrace[i].op \in {"success", "failure"} => i = Len(cyTrace)
    /\ Len(cyTrace) > 2 => C28_Passed
    /\ C28_At("success") # {} =>
          /\ C28_At("fetch") # {}
          /\ Cardinality(C28_At("publish")) = Len(cyRecords)
          /\ cySent = cyRecords
    /\ (cyPc = "none" /\ C28_Passed) =>
          Cardinality(C28_At("success") \cup C28_At("failure")) = 1

\* a finished cycle that published two records and then called
\* updateSuccessfulPoll
C28_Witness ==
    /\ cyPc = "none"
    /\ C28_Passed
    /\ Len(cyRecords) = 2
    /\ Cardinality(C28_At("publish")) = 2
    /\ cyTrace[Len(cyTrace)].op = "success"

\* a finished cycle whose second publish failed: one record published, then
\* updateFailedPoll
C28_WitnessFailure ==
    /\ cyPc = "none"
    /\ C28_Passed
    /\ Len(cyRecords) = 2
    /\ Cardinality(C28_At("publish")) = 1
    /\ cyTrace[Len(cyTrace)].op = "failure"

-----------------------------------------------------------------------------
(* C29 *)

\* the values the built URL carries for parameter name
C29_Carried(name) ==
    SelectSeq(buOut.searchParams, LAMBDA e : e[1] = name)

\* name is a configured query parameter and a pagination parameter with a
\* value
C29_Conflict(name) ==
    /\ buIn.queryParams # NoRecord
    /\ name \in DOMAIN buIn.queryParams
    /\ name \in DOMAIN buIn.additionalParams
    /\ buIn.additionalParams[name].t # "null"

-----------------------------------------------------------------------------
(* C30 *)

-----------------------------------------------------------------------------
(* C31 *)

\* this step is a loadPollingConfigurations that stops the job of key k
\* while a callback of k is inside executePoll
C31_StoppedInFlight(k) ==
    /\ lastLoad'.kind = "loaded"
    /\ jobs[k] # NoJob
    /\ jobs'[k] = NoJob
    /\ ExecCount(Sched, k) > 0

\* e is an execution whose job was stopped, and this step is its last
C31_OrphanEnds(e) ==
    /\ ~e.own
    /\ e.pc \in {"success", "failure"}
    /\ CopiesIn(e, execs') < CopiesIn(e, execs)

\* C31: a reconciliation that stops a job with an execution in flight
\* removes the handle and its pending timer and nothing else: the
\* execution is still in flight, where it was, and the state store is
\* untouched; and the step that ends an execution whose job was stopped
\* applies its updateSuccessfulPoll or updateFailedPoll to the state key.
C31_InFlightFinishes ==
    /\ [][\A k \in JobKeys :
             C31_StoppedInFlight(k) =>
                /\ execs' = Detached(execs, k)
                /\ ExecCount([execs |-> execs'], k) = ExecCount(Sched, k)
                /\ store' = store
                /\ published' = published]_vars
    /\ [][\A e \in BagToSet(execs) :
             C31_OrphanEnds(e) =>
                LET before == getPollingState(store[StateKeyOfJob(e.jobKey)], {})
                    after == getPollingState(store'[StateKeyOfJob(e.jobKey)], {})
                IN  IF e.pc = "success"
                    THEN /\ after.lastSuccessfulPoll = toISOString(SchedNow)
                         /\ after.consecutiveFailures = 0
                         /\ after.lastError = Undefined
                    ELSE /\ after.consecutiveFailures = before.consecutiveFailures + 1
                         /\ after.lastError \in SchedErrors]_vars

\* the job of an execution that is about to write its outcome has been
\* stopped
C31_Witness ==
    \E e \in BagToSet(execs) :
        /\ ~e.own
        /\ e.pc \in {"success", "failure"}
        /\ jobs[e.jobKey] = NoJob
        /\ lastLoad.kind = "none"

-----------------------------------------------------------------------------
(* C32 *)

\* C32: every request sent during a Discourse poll of a job goes to the
\* job's own instance_url with the job's own api key, and every message
\* published under a job's tenant and instance carries data of that
\* instance, also when the polls of several jobs are in flight together.
C32_OwnInstance ==
    /\ \A r \in dcRequests :
          /\ r.url = r.job.instance_url
          /\ r.apiKey = r.job.api_key_value
    /\ \A m \in dcPublished : m.raw_data = m.instance_url

-----------------------------------------------------------------------------
(* C33 *)

\* every command of the state store's backend throws
Unavailable == {"hGetAll", "hSet", "hDel", "expire"}

\* what the state store answers for configuration c while its backend is
\* unavailable: the default state, no disabling, updateFailedPoll false
\* with the key untouched; and the reconciliation of c, enabled, leaves a
\* handle for it
C33_FailsOpen(c) ==
    LET entry == store[StateKeyTable[c]]
        maxFailures == dbConfigs[c].max_failures_before_disable
    IN  /\ getPollingState(entry, Unavailable) = DefaultState
        /\ ~shouldDisablePolling(entry, maxFailures, Unavailable)
        /\ \A error \in SchedErrors :
              LET r == updateFailedPoll(entry, error, maxFailures,
                                        toISOString(SchedNow), Unavailable)
              IN  ~r.ret /\ r.entry = entry
        /\ (isRunning /\ dbConfigs[c].enabled) =>
              reconcileConfig(Sched, dbConfigs[c], TRUE).jobs[JobKeyOf[c]] # NoJob

\* the handle of job key k is removed in this step
C33_Stopped(k) == jobs[k] # NoJob /\ jobs'[k] = NoJob

\* C33 as stated, for every configuration the schema admits
C33_FailOpenAnyThreshold ==
    \A c \in SchedConfigs : C33_FailsOpen(c)

\* C33: for a configuration whose max_failures_before_disable is at least
\* 1, an unavailable state store backend makes state reads return the
\* default state, shouldDisablePolling return false and updateFailedPoll
\* return false, and reconciliation leaves the enabled job with a handle;
\* and whenever a handle is removed, the count the key stores has reached
\* the threshold: no job is stopped because of a state store error.
C33_FailOpen ==
    /\ [](\A c \in SchedConfigs :
             dbConfigs[c].max_failures_before_disable >= 1 => C33_FailsOpen(c))
    /\ [][\A k \in JobKeys :
             C33_Stopped(k) =>
                getPollingState(store'[StateKeyOfJob(k)], {}).consecutiveFailures
                    >= dbConfigs[ConfigOfKey(k)].max_failures_before_disable]_vars

\* the key stores a count that has reached the threshold, no reset was
\* made, and the job has a handle again with its timer armed: the
\* reconciliation that started it could not read the state
C33_Witness ==
    \E k \in JobKeys :
        /\ dbConfigs[ConfigOfKey(k)].max_failures_before_disable >= 1
        /\ getPollingState(store[StateKeyOfJob(k)], {}).consecutiveFailures
              >= dbConfigs[ConfigOfKey(k)].max_failures_before_disable
        /\ breaker[k] = "open"
        /\ lastLoad.kind = "loaded"
        /\ TimerPending(Sched, k)

-----------------------------------------------------------------------------
(* C34 *)

\* the count the key stores, as a healthy read returns it
C34_Stored(entry) == getPollingState(entry, {}).consecutiveFailures

\* C34: a call of updateFailedPoll never lowers the count the key stores,
\* also when the read inside the call fails and its write succeeds.
C34_FailureNeverLowers ==
    [][PsFail => C34_Stored(psEntry') >= C34_Stored(psEntry)]_vars

-----------------------------------------------------------------------------
(* C36 *)

\* this step is a call of isAllowed that was admitted with every backend
\* command succeeding
C36_Admitted ==
    /\ Len(rlLog') = Len(rlLog) + 1
    /\ rlLog'[Len(rlLog')].allowed
    /\ ~rlLog'[Len(rlLog')].threw

\* C36: an admitted call of isAllowed adds exactly one entry to the
\* window: after it the key holds one entry more than the unexpired
\* entries it held before, calls at the same millisecond included.
C36_OneEntryPerAdmission ==
    [][C36_Admitted =>
          zCard(rlWin'.z)
             = zCard(zRemRangeByScore(rlWin.z, 0,
                                      rlNow - RlWindowSeconds * 1000)) + 1]_vars

-----------------------------------------------------------------------------
(* C37 *)

\* C37: pagination progresses: a page request that follows another in a
\* cycle (hasNextPage was true after the earlier one) carries parameters
\* that differ from the earlier request's, for every pagination descriptor
\* the schema admits.
C37_PaginationProgresses ==
    \A i \in 1..(Len(fRequests) - 1) : fRequests[i + 1] # fRequests[i]

-----------------------------------------------------------------------------
(* C38 *)

\* C38: the lastSuccessfulPoll a successful cycle writes is not later
\* than the time the cycle issued its first fetch request.
C38_StampedAtFirstFetch ==
    [][IncSuccess => inSuccess' <= inTimes[1]]_vars

-----------------------------------------------------------------------------
(* C39 *)

\* the fields of a configuration, as far as the model carries them, that
\* an execution reads
C39_Used(config) ==
    <<config.method, config.max_failures_before_disable, config.interval_seconds,
      config.endpoint, config.query_params, config.data_extraction>>

\* C39: after a successful reconciliation the configuration every handle
\* holds equals the latest configuration of its document in every field
\* an execution uses.
C39_SnapshotCurrent ==
    lastLoad.kind = "loaded" =>
        \A c \in SchedConfigs :
            jobs[JobKeyOf[c]] # NoJob =>
                C39_Used(jobs[JobKeyOf[c]].config) = C39_Used(dbConfigs[c])

-----------------------------------------------------------------------------
(* C40 *)

\* the cycle has been recorded, every search request of it was answered
\* and every detail request, at least one, was rejected
C40_AllDetailsFailed ==
    /\ dxPc = "recorded"
    /\ \A i \in 1..Len(dAnswers) :
          IF dAnswers[i].kind = "search" THEN dAnswers[i].outcome = "ok"
          ELSE dAnswers[i].outcome = "fail"
    /\ \E i \in 1..Len(dAnswers) : dAnswers[i].kind = "detail"

\* C40: a Discourse cycle whose search pages all succeed and whose detail
\* fetches all fail returns an empty list without error, publishes no
\* record and is recorded as a success: with a working state store the
\* failure count is 0, the last error is cleared and lastSuccessfulPoll
\* is the time of the cycle, later than the one stored before.
C40_EmptyCycleSucceeds ==
    C40_AllDetailsFailed =>
        /\ dPc = "done"
        /\ dResult.records = <<>>
        /\ dxSent = <<>>
        /\ dxLast.call = "success"
        /\ dxLast.faults = {} =>
              LET state == getPollingState(dxEntry, {})
                  prior == getPollingState(dxPrior, {})
              IN  /\ state.consecutiveFailures = 0
                  /\ state.lastError = Undefined
                  /\ state.lastErrorTimestamp = Undefined
                  /\ state.lastSuccessfulPoll = toISOString(SchedNow)
                  /\ prior.lastSuccessfulPoll # Undefined =>
                        parseInt(state.lastSuccessfulPoll)
                            > parseInt(prior.lastSuccessfulPoll)

\* such a cycle has been recorded over a state key that held a failure
\* count and a last error, after two search pages with posts
C40_Witness ==
    /\ C40_AllDetailsFailed
    /\ dxLast.faults = {}
    /\ getPollingState(dxPrior, {}).consecutiveFailures = 1
    /\ getPollingState(dxPrior, {}).lastError # Undefined
    /\ \E i \in 1..Len(dAnswers) :
          dAnswers[i].kind = "search" /\ dAnswers[i].page = 2
              /\ Len(dAnswers[i].posts) > 0

=============================================================================
